---- MODULE Spec2Model ----
(***************************************************************************)
(* Model of the NAKALA workshop CSV converter (src/nakala/csv_converter.py) *)
(*                                                                         *)
(* Python strings are modelled as sequences of one-character strings, so   *)
(* that strip, split, replace, startswith and the two regular expressions  *)
(* are computed character by character as the interpreter computes them.   *)
(* An optional value (Python None or a value) is None or Some(v).          *)
(***************************************************************************)
EXTENDS Integers, Sequences, FiniteSets, TLC

VARIABLES
    text,           \* the str argument of the call under study
    row,            \* the CSV row (dict) argument, as a sequence of <<key, value>> items
    property_uris,  \* CsvConverter.property_uris
    op,             \* name of the last method called on the converter, "new" after __init__
    result,         \* value returned by the last call
    raised,         \* name of the exception the last call raised, "" if it returned
    history,        \* the calls of csv_row_to_nakala_metas made so far, oldest first
    dataset,        \* the dict argument of validate_dataset, or the two of extract_differences
    requests,       \* the HTTP requests issued so far, oldest first
    response,       \* what the last HTTP request came back with
    pc,             \* position of the running script, "idle" when none runs
    paused,         \* whether the script has slept or waited since its last request
    demo            \* the fields of the running script's demo object, None when none runs

\* the variables of the HTTP side, which the converter never touches
http_vars == <<requests, response, pc, paused, demo>>

vars == <<text, row, property_uris, op, result, raised, history, dataset, http_vars>>

----------------------------------------------------------------------------
(* Bounds of the model *)

MaxTextLen == 5     \* longest text handed to the two field parsers
MaxOrcidTokens == 4 \* most tokens in a text handed to normalize_orcid
MaxCreatorTokens == 3   \* most tokens in a text handed to parse_creator
MaxRowKeys == 2     \* most columns present in a row

----------------------------------------------------------------------------
(* Python values *)

None == <<>>
Some(v) == <<v>>

Whitespace == {" ", "\n"}

Digit == {"0", "1", "2", "3", "4", "5", "6", "7", "8", "9"}

IsSpace(c) == c \in Whitespace

MinOf(S) == CHOOSE m \in S : \A n \in S : m <= n

MaxOf(S) == CHOOSE m \in S : \A n \in S : m >= n

\* c in s, for a one-character c
Contains(s, c) == \E i \in 1..Len(s) : s[i] = c

\* s.find(c) + 1 for a one-character c that occurs in s
IndexOf(s, c) == MinOf({i \in 1..Len(s) : s[i] = c})

\* s[n:]
Drop(s, n) == SubSeq(s, n + 1, Len(s))

\* s.strip()
strip(s) ==
    LET keep == {i \in 1..Len(s) : ~IsSpace(s[i])}
    IN  IF keep = {} THEN <<>> ELSE SubSeq(s, MinOf(keep), MaxOf(keep))

\* s.split(c): every piece between separators, empty pieces included
RECURSIVE split(_, _)
split(s, c) ==
    IF ~Contains(s, c)
    THEN <<s>>
    ELSE LET i == IndexOf(s, c)
         IN  <<SubSeq(s, 1, i - 1)>> \o split(Drop(s, i), c)

\* s.rsplit(c, 1): the split taken on the last separator instead of the first
split1_last(s, c) ==
    IF ~Contains(s, c)
    THEN <<s>>
    ELSE LET i == MaxOf({j \in 1..Len(s) : s[j] = c})
         IN  <<SubSeq(s, 1, i - 1), Drop(s, i)>>

\* s.split(c, 1): at most one split, on the first separator
split1(s, c) ==
    IF ~Contains(s, c)
    THEN <<s>>
    ELSE LET i == IndexOf(s, c)
         IN  <<SubSeq(s, 1, i - 1), Drop(s, i)>>

\* s.startswith(p)
startswith(s, p) == Len(s) >= Len(p) /\ SubSeq(s, 1, Len(p)) = p

\* s.replace(old, ""): leftmost non-overlapping occurrences, scanned once
RECURSIVE replace(_, _)
replace(s, old) ==
    IF s = <<>> THEN <<>>
    ELSE IF startswith(s, old) THEN replace(Drop(s, Len(old)), old)
    ELSE <<s[1]>> \o replace(Tail(s), old)

UpperChar(c) ==
    CASE c = "o" -> "O"
      [] c = "r" -> "R"
      [] c = "c" -> "C"
      [] c = "i" -> "I"
      [] c = "d" -> "D"
      [] c = "a" -> "A"
      [] c = "b" -> "B"
      [] c = "x" -> "X"
      [] OTHER -> c

\* s.upper()
upper(s) == [i \in 1..Len(s) |-> UpperChar(s[i])]

\* concatenation of a sequence of strings
RECURSIVE Flatten(_)
Flatten(ss) == IF ss = <<>> THEN <<>> ELSE Head(ss) \o Flatten(Tail(ss))

----------------------------------------------------------------------------
(* CsvConverter.__init__ *)

PropertyUris ==
    [title        |-> "http://nakala.fr/terms#title",
     alternative  |-> "http://purl.org/dc/terms/alternative",
     description  |-> "http://purl.org/dc/terms/description",
     subject      |-> "http://purl.org/dc/terms/subject",
     creator      |-> "http://nakala.fr/terms#creator",
     contributor  |-> "http://purl.org/dc/terms/contributor",
     created      |-> "http://nakala.fr/terms#created",
     license      |-> "http://nakala.fr/terms#license",
     type         |-> "http://nakala.fr/terms#type",
     language     |-> "http://purl.org/dc/terms/language",
     temporal     |-> "http://purl.org/dc/terms/temporal",
     spatial      |-> "http://purl.org/dc/terms/spatial",
     accessRights |-> "http://purl.org/dc/terms/accessRights",
     identifier   |-> "http://purl.org/dc/terms/identifier",
     publisher    |-> "http://purl.org/dc/terms/publisher"]

----------------------------------------------------------------------------
(* CsvConverter.parse_multilingual_field *)

\* the part split on every colon: part.split(':')
LangPartPieces_unlimited(part) == split(strip(part), ":")

\* one iteration of the loop over lang_parts; the tuple assignment
\* "lang, text = part.split(':', 1)" needs exactly two pieces
LangPartPieces(part) == split1(strip(part), ":")

LangPart(part) ==
    LET p == strip(part)
        pieces == LangPartPieces(part)
    IN  IF Contains(p, ":")
        THEN [lang |-> Some(strip(pieces[1])), value |-> strip(pieces[2])]
        ELSE [lang |-> None, value |-> p]

parse_multilingual_field_raises(value) ==
    /\ strip(value) # <<>>
    /\ Contains(value, "|") \/ Contains(value, ":")
    /\ \E k \in 1..Len(split(value, "|")) :
          LET part == split(value, "|")[k]
          IN  Contains(strip(part), ":") /\ Len(LangPartPieces(part)) # 2

\* the simple-value branch returning the text unstripped
parse_multilingual_field_unstripped(value) ==
    IF value = <<>> \/ strip(value) = <<>>
    THEN <<>>
    ELSE IF ~Contains(value, "|") /\ ~Contains(value, ":")
    THEN <<[value |-> value, lang |-> None]>>
    ELSE LET lang_parts == split(value, "|")
         IN  [k \in 1..Len(lang_parts) |-> LangPart(lang_parts[k])]

parse_multilingual_field(value) ==
    IF value = <<>> \/ strip(value) = <<>>
    THEN <<>>
    ELSE IF ~Contains(value, "|") /\ ~Contains(value, ":")
    THEN <<[value |-> strip(value), lang |-> None]>>
    ELSE LET lang_parts == split(value, "|")
         IN  [k \in 1..Len(lang_parts) |-> LangPart(lang_parts[k])]

----------------------------------------------------------------------------
(* CsvConverter.parse_multiple_values *)

\* [v.strip() for v in pieces if v.strip()]
RECURSIVE StripNonEmpty(_)
StripNonEmpty(pieces) ==
    IF pieces = <<>> THEN <<>>
    ELSE IF strip(Head(pieces)) # <<>>
    THEN <<strip(Head(pieces))>> \o StripNonEmpty(Tail(pieces))
    ELSE StripNonEmpty(Tail(pieces))

\* the comprehension without its "if v.strip()" filter
parse_multiple_values_unfiltered(value) ==
    IF Contains(value, ";")
    THEN [k \in 1..Len(split(value, ";")) |-> strip(split(value, ";")[k])]
    ELSE IF strip(value) # <<>> THEN <<strip(value)>> ELSE <<>>

parse_multiple_values(value) ==
    IF Contains(value, ";")
    THEN StripNonEmpty(split(value, ";"))
    ELSE IF strip(value) # <<>> THEN <<strip(value)>> ELSE <<>>

----------------------------------------------------------------------------
(* The state outside the call under study *)

\* the dict {}: no status key and no metas key
EmptyDataset == [status |-> None, metas |-> None]

\* no request has been answered yet
NoResponse == [status |-> 0, body |-> "none"]

\* nothing has been converted, validated or sent
NothingElse ==
    /\ history = <<>>
    /\ dataset = EmptyDataset
    /\ requests = <<>>
    /\ response = NoResponse
    /\ pc = "idle"
    /\ paused = FALSE
    /\ demo = None

----------------------------------------------------------------------------
(* Calls of the two field parsers on every short text *)

FieldChars == {"a", "b", " ", "\n", ":", "|", ";"}

EmptyRow == <<>>

InitField ==
    /\ \E n \in 0..MaxTextLen : text \in [1..n -> FieldChars]
    /\ row = EmptyRow
    /\ property_uris = PropertyUris
    /\ op = "new"
    /\ result = <<>>
    /\ raised = ""
    /\ NothingElse

Call_parse_multilingual_field ==
    /\ op' = "parse_multilingual_field"
    /\ raised' = IF parse_multilingual_field_raises(text) THEN "ValueError" ELSE ""
    /\ result' = IF parse_multilingual_field_raises(text) THEN <<>>
                 ELSE parse_multilingual_field(text)
    /\ UNCHANGED <<text, row, property_uris, history, dataset, http_vars>>

Call_parse_multiple_values ==
    /\ op' = "parse_multiple_values"
    /\ raised' = ""
    /\ result' = parse_multiple_values(text)
    /\ UNCHANGED <<text, row, property_uris, history, dataset, http_vars>>

NextField ==
    \/ Call_parse_multilingual_field
    \/ Call_parse_multiple_values

SpecField == InitField /\ [][NextField]_vars

----------------------------------------------------------------------------
(* Reference notions used to state the properties, defined from positions *)
(* in the text rather than by scanning it                                 *)

\* positions of the separator c in s
SepPositions(s, c) == {i \in 1..Len(s) : s[i] = c}

\* position of the k-th separator; 0 before the first, Len(s)+1 after the last
NthSep(s, c, k) ==
    IF k = 0 THEN 0
    ELSE IF k > Cardinality(SepPositions(s, c)) THEN Len(s) + 1
    ELSE CHOOSE p \in SepPositions(s, c) :
            Cardinality({q \in SepPositions(s, c) : q < p}) = k - 1

\* number of c-separated pieces of s
PieceCount(s, c) == Cardinality(SepPositions(s, c)) + 1

\* the k-th c-separated piece of s
Piece(s, c, k) == SubSeq(s, NthSep(s, c, k - 1) + 1, NthSep(s, c, k) - 1)

\* s without its leading and trailing whitespace
RECURSIVE Trimmed(_)
Trimmed(s) ==
    IF s = <<>> THEN s
    ELSE IF s[1] \in Whitespace THEN Trimmed(Tail(s))
    ELSE IF s[Len(s)] \in Whitespace THEN Trimmed(SubSeq(s, 1, Len(s) - 1))
    ELSE s

Blank(s) == \A i \in 1..Len(s) : s[i] \in Whitespace

HasChar(s, c) == SepPositions(s, c) # {}

\* the first c-separated piece of s and everything after the first c
BeforeFirst(s, c) == Piece(s, c, 1)

AfterFirst(s, c) == SubSeq(s, NthSep(s, c, 1) + 1, Len(s))

\* what one '|'-separated segment must yield
ExpectedLangEntry(seg) ==
    IF HasChar(seg, ":")
    THEN [lang |-> Some(Trimmed(BeforeFirst(seg, ":"))), value |-> Trimmed(AfterFirst(seg, ":"))]
    ELSE [lang |-> None, value |-> Trimmed(seg)]

\* the indices of the c-separated pieces of s that are not blank
KeptPieces(s, c) == {k \in 1..PieceCount(s, c) : ~Blank(Piece(s, c, k))}

\* the j-th non-blank c-separated piece of s, trimmed
NthKept(s, c, j) ==
    Trimmed(Piece(s, c, CHOOSE k \in KeptPieces(s, c) :
                            Cardinality({i \in KeptPieces(s, c) : i < k}) = j - 1))

----------------------------------------------------------------------------
(* Properties of parse_multilingual_field and parse_multiple_values *)

\* C1: for every non-blank text containing '|' or ':', parse_multilingual_field
\* returns one entry per '|'-separated segment, in input order; a segment with
\* ':' gives lang = trimmed text before its first ':' and value = trimmed text
\* after it, a segment without ':' gives lang = null and value = trimmed segment.
C1_OneEntryPerSegment ==
    (/\ op = "parse_multilingual_field"
     /\ ~Blank(text)
     /\ HasChar(text, "|") \/ HasChar(text, ":"))
    => /\ raised = ""
       /\ Len(result) = PieceCount(text, "|")
       /\ \A k \in 1..PieceCount(text, "|") :
              result[k] = ExpectedLangEntry(Piece(text, "|", k))

\* a two-segment text: a tagged segment whose value keeps a later colon, then an
\* untagged one
C1_Witness ==
    /\ op = "parse_multilingual_field"
    /\ Len(result) = 2
    /\ result[1].lang = Some(<<"a">>)
    /\ result[1].value = <<":">>
    /\ result[2] = [lang |-> None, value |-> <<"b">>]

\* C2 as stated: for every text with neither ':' nor '|', parse_multilingual_field
\* returns exactly one entry, with lang = null and value = the trimmed text.
C2_Original ==
    (/\ op = "parse_multilingual_field"
     /\ ~HasChar(text, "|")
     /\ ~HasChar(text, ":"))
    => result = <<[lang |-> None, value |-> Trimmed(text)]>>

\* C2 amended: for every non-blank text with neither ':' nor '|' the result is
\* exactly one entry with lang = null and value = the trimmed text; for a blank
\* text the result is the empty list.
C2_SingleNullLangEntry ==
    (/\ op = "parse_multilingual_field"
     /\ ~HasChar(text, "|")
     /\ ~HasChar(text, ":"))
    => /\ raised = ""
       /\ ~Blank(text) => result = <<[lang |-> None, value |-> Trimmed(text)]>>
       /\ Blank(text) => result = <<>>

\* a plain text with surrounding whitespace was parsed
C2_Witness ==
    /\ op = "parse_multilingual_field"
    /\ text = <<" ", "a", "b", "\n">>
    /\ result = <<[lang |-> None, value |-> <<"a", "b">>]>>

\* C3: parse_multiple_values returns the ';'-separated pieces of the text, each
\* trimmed, in input order, with the empty ones removed; no returned string is
\* empty or has leading or trailing whitespace.
C3_TrimmedNonEmptyPieces ==
    op = "parse_multiple_values"
    => /\ raised = ""
       /\ Len(result) = Cardinality(KeptPieces(text, ";"))
       /\ \A j \in 1..Len(result) :
              /\ result[j] = NthKept(text, ";", j)
              /\ result[j] # <<>>
              /\ result[j][1] \notin Whitespace
              /\ result[j][Len(result[j])] \notin Whitespace

\* a text with a padded piece, an empty piece and a second piece
C3_Witness ==
    /\ op = "parse_multiple_values"
    /\ text = <<" ", "a", ";", ";", "b">>
    /\ result = << <<"a">>, <<"b">> >>

----------------------------------------------------------------------------
(* CsvConverter.normalize_orcid *)

HttpsPrefix ==
    <<"h", "t", "t", "p", "s", ":", "/", "/", "o", "r", "c", "i", "d", ".", "o", "r", "g", "/">>

HttpPrefix ==
    <<"h", "t", "t", "p", ":", "/", "/", "o", "r", "c", "i", "d", ".", "o", "r", "g", "/">>

OrcidTag == <<"O", "R", "C", "I", "D", ":">>

\* the pattern written with the class [\dX] at every digit position
OrcidRegexMatch_anyX(s) ==
    LET n == IF Len(s) = 20 /\ s[20] = "\n" THEN 19 ELSE Len(s)
    IN  /\ n = 19
        /\ \A i \in 1..19 :
              IF i \in {5, 10, 15} THEN s[i] = "-"
              ELSE s[i] \in Digit \cup {"X"}

\* re.match(r'^\d{4}-\d{4}-\d{4}-\d{3}[\dX]$', s); '$' also matches just
\* before a final line break
OrcidRegexMatch(s) ==
    LET n == IF Len(s) = 20 /\ s[20] = "\n" THEN 19 ELSE Len(s)
    IN  /\ n = 19
        /\ \A i \in 1..19 :
              IF i \in {5, 10, 15} THEN s[i] = "-"
              ELSE IF i = 19 THEN s[i] \in Digit \cup {"X"}
              ELSE s[i] \in Digit

\* the 'ORCID:' branch written as orcid[6:] without the second strip()
StripOrcidPrefix_nostrip(orcid_str) ==
    LET orcid == strip(orcid_str)
    IN  IF startswith(orcid, HttpsPrefix) THEN replace(orcid, HttpsPrefix)
        ELSE IF startswith(orcid, HttpPrefix) THEN replace(orcid, HttpPrefix)
        ELSE IF startswith(upper(orcid), OrcidTag) THEN Drop(orcid, 6)
        ELSE orcid

\* the prefix-stripping chain of lines 99-107
StripOrcidPrefix(orcid_str) ==
    LET orcid == strip(orcid_str)
    IN  IF startswith(orcid, HttpsPrefix) THEN replace(orcid, HttpsPrefix)
        ELSE IF startswith(orcid, HttpPrefix) THEN replace(orcid, HttpPrefix)
        ELSE IF startswith(upper(orcid), OrcidTag) THEN strip(Drop(orcid, 6))
        ELSE orcid

normalize_orcid(orcid_str) ==
    IF orcid_str = <<>> THEN None
    ELSE LET orcid == StripOrcidPrefix(orcid_str)
         IN  IF OrcidRegexMatch(orcid) THEN Some(orcid) ELSE None

----------------------------------------------------------------------------
(* Calls of normalize_orcid on texts assembled from prefixes and identifier *)
(* halves                                                                  *)

OrcidHead == <<"0", "0", "0", "0", "-", "0", "0", "0", "1", "-">>

OrcidTailDigits == <<"2", "3", "4", "5", "-", "6", "7", "8", "9">>

OrcidTailX == <<"2", "3", "4", "5", "-", "6", "7", "8", "X">>

OrcidTailBad == <<"2", "3", "4", "5", "-", "6", "7", "X", "9">>

OrcidTokens ==
    {<<" ">>, HttpsPrefix, HttpPrefix, OrcidTag, <<"o", "r", "c", "i", "d", ":">>,
     OrcidHead, OrcidTailX, OrcidTailBad}

InitOrcid ==
    /\ \E n \in 0..MaxOrcidTokens : \E tokens \in [1..n -> OrcidTokens] :
          text = Flatten(tokens)
    /\ row = EmptyRow
    /\ property_uris = PropertyUris
    /\ op = "new"
    /\ result = <<>>
    /\ raised = ""
    /\ NothingElse

Call_normalize_orcid ==
    /\ op' = "normalize_orcid"
    /\ raised' = ""
    /\ result' = normalize_orcid(text)
    /\ UNCHANGED <<text, row, property_uris, history, dataset, http_vars>>

NextOrcid == Call_normalize_orcid

SpecOrcid == InitOrcid /\ [][NextOrcid]_vars

----------------------------------------------------------------------------
(* Properties of normalize_orcid *)

\* s matches \d{4}-\d{4}-\d{4}-\d{3}[\dX]
IsBareOrcid(s) ==
    /\ Len(s) = 19
    /\ {i \in 1..19 : s[i] = "-"} = {5, 10, 15}
    /\ \A i \in (1..18) \ {5, 10, 15} : s[i] \in Digit
    /\ s[19] \in Digit \cup {"X"}

HasPrefix(s, p) == Len(s) >= Len(p) /\ \A i \in 1..Len(p) : s[i] = p[i]

\* s begins with p written in any letter case
HasPrefixAnyCase(s, p) ==
    /\ Len(s) >= Len(p)
    /\ \A i \in 1..Len(p) : s[i] = p[i] \/ UpperChar(s[i]) = p[i]

\* s with its first n characters removed
Without(s, n) == [i \in 1..(Len(s) - n) |-> s[i + n]]

\* s with only a leading prefix p removed
WithoutLeading(s) ==
    IF HasPrefix(s, HttpsPrefix) THEN Without(s, Len(HttpsPrefix))
    ELSE IF HasPrefix(s, HttpPrefix) THEN Without(s, Len(HttpPrefix))
    ELSE IF HasPrefix(s, OrcidTag) THEN Without(s, Len(OrcidTag))
    ELSE s

\* positions at which an occurrence of p starts in s
Occurrences(s, p) ==
    {i \in 1..(Len(s) - Len(p) + 1) : \A k \in 1..Len(p) : s[i + k - 1] = p[k]}

\* positions of s that lie inside no occurrence of p (the occurrences of either
\* URL prefix cannot overlap one another)
OutsideOccurrences(s, p) ==
    LET occ == Occurrences(s, p)
    IN  {j \in 1..Len(s) : \A i \in occ : j < i \/ j >= i + Len(p)}

\* s with every occurrence of p deleted
WithoutEvery(s, p) ==
    LET keep == OutsideOccurrences(s, p)
    IN  [k \in 1..Cardinality(keep) |->
            s[CHOOSE j \in keep : Cardinality({i \in keep : i < j}) = k - 1]]

\* what is matched against the pattern: the trimmed text, less every occurrence
\* of the URL prefix it starts with, or less a leading 'ORCID:' in any letter
\* case and the whitespace after it
Candidate(s) ==
    LET t == Trimmed(s)
    IN  IF HasPrefix(t, HttpsPrefix) THEN WithoutEvery(t, HttpsPrefix)
        ELSE IF HasPrefix(t, HttpPrefix) THEN WithoutEvery(t, HttpPrefix)
        ELSE IF HasPrefixAnyCase(t, OrcidTag) THEN Trimmed(Without(t, Len(OrcidTag)))
        ELSE t

----------------------------------------------------------------------------
(* CsvConverter.parse_creator *)

\* the end of the text that '$' anchors to: the end of the string, or the
\* position before a final line break
RegexEnd(name) ==
    IF name # <<>> /\ name[Len(name)] = "\n" /\ Len(name) > 1 /\ name[Len(name) - 1] = ")"
    THEN Len(name) - 1
    ELSE Len(name)

\* the text that "(.+?)\s*" has to cover
BeforeParen(name) == SubSeq(name, 1, RegexEnd(name) - 21)

\* lengths k such that "(.+?)" can take the first k characters (no line break
\* among them) and "\s*" the rest
NameLengths(p) ==
    {k \in 1..Len(p) : /\ \A i \in 1..k : p[i] # "\n"
                       /\ \A i \in (k + 1)..Len(p) : IsSpace(p[i])}

\* orcid_pattern.match(name) for r'^(.+?)\s*\(([0-9X-]{19})\)$'
orcid_pattern_matches(name) ==
    LET e == RegexEnd(name)
    IN  /\ e >= 22
        /\ name[e] = ")"
        /\ name[e - 20] = "("
        /\ \A i \in (e - 19)..(e - 1) : name[i] \in Digit \cup {"X", "-"}
        /\ NameLengths(BeforeParen(name)) # {}

\* match.group(1): the lazy quantifier takes the shortest possible name
orcid_pattern_group1(name) ==
    SubSeq(name, 1, MinOf(NameLengths(BeforeParen(name))))

\* match.group(2)
orcid_pattern_group2(name) == SubSeq(name, RegexEnd(name) - 19, RegexEnd(name) - 1)

\* the orcid assigned in lines 145-151
ExtractOrcid(name) ==
    IF orcid_pattern_matches(name)
    THEN normalize_orcid(orcid_pattern_group2(name))
    ELSE None

\* the name left after lines 148-150
ExtractName(name) ==
    IF orcid_pattern_matches(name)
    THEN strip(orcid_pattern_group1(name))
    ELSE name

\* lines 154-161
Surname(name) ==
    IF Contains(name, ",") THEN strip(split1(name, ",")[1]) ELSE name

\* parts[1] taken without strip()
Givenname_unstripped(name) ==
    IF Contains(name, ",")
    THEN IF Len(split1(name, ",")) > 1 THEN split1(name, ",")[2] ELSE <<>>
    ELSE <<>>

Givenname(name) ==
    IF Contains(name, ",")
    THEN IF Len(split1(name, ",")) > 1 THEN strip(split1(name, ",")[2]) ELSE <<>>
    ELSE <<>>

\* line 163 without the strip() of the joined name
FullName_unstripped(givenname, surname) ==
    IF givenname # <<>> THEN givenname \o <<" ">> \o surname ELSE surname

\* line 163
FullName(givenname, surname) ==
    IF givenname # <<>> THEN strip(givenname \o <<" ">> \o surname) ELSE surname

\* lines 165-173 with the orcid added whenever the pattern matched, unvalidated
CreatorValue_unvalidated(name0) ==
    LET name == ExtractName(strip(name0))
        base == [givenname |-> Givenname(name),
                 surname   |-> Surname(name),
                 fullName  |-> FullName(Givenname(name), Surname(name))]
    IN  IF orcid_pattern_matches(strip(name0))
        THEN [givenname |-> base.givenname, surname |-> base.surname,
              fullName |-> base.fullName,
              orcid |-> orcid_pattern_group2(strip(name0))]
        ELSE base

\* lines 144-173: the creator_value dict of one name
CreatorValue(name0) ==
    LET name == ExtractName(strip(name0))
        orcid == ExtractOrcid(strip(name0))
        base == [givenname |-> Givenname(name),
                 surname   |-> Surname(name),
                 fullName  |-> FullName(Givenname(name), Surname(name))]
    IN  IF orcid # None /\ orcid[1] # <<>>
        THEN [givenname |-> base.givenname, surname |-> base.surname,
              fullName |-> base.fullName, orcid |-> orcid[1]]
        ELSE base

\* the entries appended for the names of one language part
CreatorsOfNames(uris, names) ==
    [k \in 1..Len(names) |-> [propertyUri |-> uris.creator, value |-> CreatorValue(names[k])]]

\* the loop over lang_parts keeping only the names of the first language part
CreatorsOfParts_first(uris, lang_parts) ==
    IF lang_parts = <<>> THEN <<>>
    ELSE CreatorsOfNames(uris, parse_multiple_values(Head(lang_parts).value))

\* the loop over lang_parts
RECURSIVE CreatorsOfParts(_, _)
CreatorsOfParts(uris, lang_parts) ==
    IF lang_parts = <<>> THEN <<>>
    ELSE CreatorsOfNames(uris, parse_multiple_values(Head(lang_parts).value))
            \o CreatorsOfParts(uris, Tail(lang_parts))

parse_creator_raises(value) == parse_multilingual_field_raises(value)

parse_creator(uris, value) ==
    IF value = <<>> \/ strip(value) = <<>>
    THEN <<>>
    ELSE CreatorsOfParts(uris, parse_multilingual_field(value))

----------------------------------------------------------------------------
(* Calls of parse_creator: on texts assembled from tokens, and on texts of *)
(* the form "S, G (O)"                                                     *)

MaxNameLen == 3     \* longest S and G in a text of the form "S, G (O)"

OrcidValid == OrcidHead \o OrcidTailDigits

OrcidValidX == OrcidHead \o OrcidTailX

OrcidInvalid == OrcidHead \o OrcidTailBad

Parenthesised(s) == <<"(">> \o s \o <<")">>

CreatorTokens ==
    {<<"a">>, <<" ">>, <<",">>, <<";">>, <<"|">>, <<":">>,
     Parenthesised(OrcidValidX), Parenthesised(OrcidInvalid), Parenthesised(<<"0">>)}

NameChars == {"a", " ", "\n"}

FormText(S, G, O) == S \o <<",", " ">> \o G \o <<" ">> \o Parenthesised(O)

ListNames ==
    {<<>>, <<"a">>, <<"b", ",", "a">>, <<",", "a">>, <<"b">> \o Parenthesised(OrcidValid)}

ListSeparators == {<<";">>, <<"|">>, <<" ", "|", "a", ":">>}

\* three names, some possibly empty, between separators
ListTexts ==
    {n1 \o s1 \o n2 \o s2 \o n3 : n1 \in ListNames, n2 \in ListNames, n3 \in ListNames,
                                  s1 \in ListSeparators, s2 \in ListSeparators}

\* all names of at most MaxNameLen characters
Names == UNION {[1..n -> NameChars] : n \in 0..MaxNameLen}

\* the creator text is a token sequence, a list of names or a text of the form
\* "S, G (O)"
ChooseCreatorText ==
    \/ \E n \in 0..MaxCreatorTokens : \E tokens \in [1..n -> CreatorTokens] :
          text = Flatten(tokens)
    \/ text \in ListTexts
    \/ \E S \in Names, G \in Names : text = FormText(S, G, OrcidValid)

InitCreator ==
    /\ ChooseCreatorText
    /\ row = EmptyRow
    /\ property_uris = PropertyUris
    /\ op = "new"
    /\ result = <<>>
    /\ raised = ""
    /\ NothingElse

Call_parse_creator ==
    /\ op' = "parse_creator"
    /\ raised' = IF parse_creator_raises(text) THEN "ValueError" ELSE ""
    /\ result' = IF parse_creator_raises(text) THEN <<>>
                 ELSE parse_creator(property_uris, text)
    /\ UNCHANGED <<text, row, property_uris, history, dataset, http_vars>>

NextCreator == Call_parse_creator

SpecCreator == InitCreator /\ [][NextCreator]_vars

----------------------------------------------------------------------------
(* Properties of parse_creator *)

\* the value of one '|'-separated segment: what follows its first ':', or the
\* whole segment when it has none
SegValue(seg) ==
    IF HasChar(seg, ":") THEN Trimmed(AfterFirst(seg, ":")) ELSE Trimmed(seg)

\* the non-empty ';'-separated names of a segment value, trimmed
NamesOfValue(v) ==
    [j \in 1..Cardinality(KeptPieces(v, ";")) |-> NthKept(v, ";", j)]

\* the names of a creator text, in input order
ExpectedNames(t) ==
    Flatten([k \in 1..PieceCount(t, "|") |-> NamesOfValue(SegValue(Piece(t, "|", k)))])

CreatorUri == "http://nakala.fr/terms#creator"

Forbidden == {",", ";", "|", ":", "(", ")"}

\* the parts of a text read as "S, G (O)"
FormS(t) == BeforeFirst(t, ",")

FormG(t) == SubSeq(t, Len(FormS(t)) + 3, Len(t) - 22)

FormO(t) == SubSeq(t, Len(t) - 19, Len(t) - 1)

\* t is S, then ", ", then G, then " (", a valid bare ORCID and ")", where S
\* and G contain none of the forbidden characters
IsForm(t) ==
    /\ Len(t) >= 24
    /\ HasChar(t, ",")
    /\ Len(FormS(t)) + 24 <= Len(t)
    /\ t = FormS(t) \o <<",", " ">> \o FormG(t) \o <<" ", "(">> \o FormO(t) \o <<")">>
    /\ IsBareOrcid(FormO(t))
    /\ \A i \in 1..Len(FormS(t)) : FormS(t)[i] \notin Forbidden
    /\ \A i \in 1..Len(FormG(t)) : FormG(t)[i] \notin Forbidden

\* the single entry the form must give
FormEntry(t) ==
    [propertyUri |-> CreatorUri,
     value |-> [surname   |-> FormS(t),
                givenname |-> FormG(t),
                fullName  |-> FormG(t) \o <<" ">> \o FormS(t),
                orcid     |-> FormO(t)]]

\* a name part that is not empty, has no whitespace at either end and no line
\* break
ProperName(n) ==
    /\ n # <<>>
    /\ n[1] \notin Whitespace
    /\ n[Len(n)] \notin Whitespace
    /\ \A i \in 1..Len(n) : n[i] # "\n"

\* C5 as stated: for any text of the form 'S, G (O)' with O a valid bare ORCID
\* and S and G free of ',', ';', '|', ':', '(' and ')', parse_creator returns
\* exactly one entry with the creator URI, surname S, givenname G, fullName
\* 'G S' and orcid O.
C5_Original ==
    (op = "parse_creator" /\ IsForm(text)) => result = <<FormEntry(text)>>

\* C5 amended: the same, for S and G that are moreover non-empty, without
\* leading or trailing whitespace and without a line break.
C5_SurnameGivenOrcid ==
    (/\ op = "parse_creator"
     /\ IsForm(text)
     /\ ProperName(FormS(text))
     /\ ProperName(FormG(text)))
    => /\ raised = ""
       /\ result = <<FormEntry(text)>>

\* a two-word surname, a given name and an ORCID were taken apart
C5_Witness ==
    /\ op = "parse_creator"
    /\ text = FormText(<<"a", " ", "a">>, <<"a">>, OrcidValid)
    /\ Len(result) = 1
    /\ result[1].value.surname = <<"a", " ", "a">>
    /\ result[1].value.orcid = OrcidValid

\* C6: parse_creator returns exactly one creator entry for each non-empty name
\* obtained by splitting the text on '|' and each segment's value on ';', in
\* input order (the surname of the k-th entry begins the k-th name); a blank
\* text gives the empty list.
C6_OneEntryPerName ==
    op = "parse_creator"
    => /\ raised = ""
       /\ Len(result) = Len(ExpectedNames(text))
       /\ \A k \in 1..Len(result) :
              /\ result[k].propertyUri = CreatorUri
              /\ HasPrefix(ExpectedNames(text)[k], result[k].value.surname)
       /\ Blank(text) => result = <<>>

\* names were found on both sides of a '|' and around a ';'
C6_Witness ==
    /\ op = "parse_creator"
    /\ HasChar(text, "|")
    /\ HasChar(text, ";")
    /\ Len(result) = 3
    /\ PieceCount(text, "|") = 2

\* C7: in every creator record produced by parse_creator, fullName equals
\* surname when givenname is empty and otherwise equals givenname, one space
\* and surname, trimmed.
C7_FullNameDerived ==
    op = "parse_creator"
    => \A k \in 1..Len(result) :
          result[k].value.fullName =
              IF result[k].value.givenname = <<>>
              THEN result[k].value.surname
              ELSE Trimmed(result[k].value.givenname \o <<" ">> \o result[k].value.surname)

\* a record with a given name and no surname, and one with both
C7_Witness ==
    /\ op = "parse_creator"
    /\ Len(result) = 2
    /\ result[1].value.givenname = <<"a">>
    /\ result[1].value.surname = <<>>
    /\ result[1].value.fullName = <<"a">>
    /\ result[2].value.givenname # <<>>
    /\ result[2].value.surname # <<>>

\* the text between the last '(' of a name and its final ')'
TrailingParenthesis(name) ==
    SubSeq(name, MaxOf(SepPositions(name, "(")) + 1, Len(name) - 1)

\* the name ends with a parenthesised text that is not a valid bare ORCID
MalformedTrailingOrcid(name) ==
    /\ name # <<>>
    /\ name[Len(name)] = ")"
    /\ HasChar(name, "(")
    /\ ~IsBareOrcid(TrailingParenthesis(name))

\* C9: when a creator name ends with a parenthesised ORCID that is malformed,
\* parse_creator raises nothing, still returns one entry for that name, and
\* that entry has no orcid key.
C9_MalformedOrcidDropped ==
    op = "parse_creator"
    => /\ raised = ""
       /\ Len(result) = Len(ExpectedNames(text))
       /\ \A k \in 1..Len(result) :
              MalformedTrailingOrcid(ExpectedNames(text)[k])
                  => "orcid" \notin DOMAIN result[k].value

\* a name followed by a parenthesised 19-character group that is not an ORCID
C9_Witness ==
    /\ op = "parse_creator"
    /\ text = <<"a">> \o Parenthesised(OrcidInvalid)
    /\ Len(result) = 1
    /\ result[1].value = [givenname |-> <<>>, surname |-> <<"a">>, fullName |-> <<"a">>]

----------------------------------------------------------------------------
(* CsvConverter.csv_row_to_nakala_metas *)

XsdString == "http://www.w3.org/2001/XMLSchema#string"

DctermsUri == "http://purl.org/dc/terms/URI"

\* row.get(key): the row is the sequence of its <<key, value>> items
row_get(r, key) ==
    IF \E i \in 1..Len(r) : r[i][1] = key
    THEN Some(r[CHOOSE i \in 1..Len(r) : r[i][1] = key][2])
    ELSE None

\* truth value of an optional string: neither None nor ''
Truthy(o) == o # None /\ o[1] # <<>>

\* a or b
OrElse(a, b) == IF Truthy(a) THEN a ELSE b

\* the meta dict of one language part, with its lang key when the lang is
\* neither None nor ''
LangMeta(base, part) ==
    IF Truthy(part.lang)
    THEN base @@ ("value" :> part.value) @@ ("lang" :> part.lang[1])
    ELSE base @@ ("value" :> part.value)

\* the entries of a multilingual field
MultilingualMetas(base, field) ==
    IF Truthy(field)
    THEN LET lang_parts == parse_multilingual_field(field[1])
         IN  [k \in 1..Len(lang_parts) |-> LangMeta(base, lang_parts[k])]
    ELSE <<>>

\* the entries of the keywords of one language part
KeywordMetas(uris, part) ==
    LET keywords == parse_multiple_values(part.value)
    IN  [j \in 1..Len(keywords) |->
            LangMeta([propertyUri |-> uris.subject, typeUri |-> XsdString],
                     [lang |-> part.lang, value |-> keywords[j]])]

RECURSIVE KeywordMetasOfParts(_, _)
KeywordMetasOfParts(uris, lang_parts) ==
    IF lang_parts = <<>> THEN <<>>
    ELSE KeywordMetas(uris, Head(lang_parts)) \o KeywordMetasOfParts(uris, Tail(lang_parts))

\* the subject column read first and keywords only as its fallback
SubjectMetas_subject_first(uris, r) ==
    LET keywords_field == OrElse(row_get(r, "subject"), row_get(r, "keywords"))
    IN  IF Truthy(keywords_field)
        THEN KeywordMetasOfParts(uris, parse_multilingual_field(keywords_field[1]))
        ELSE <<>>

\* lines 262-276
SubjectMetas(uris, r) ==
    LET keywords_field == OrElse(row_get(r, "keywords"), row_get(r, "subject"))
    IN  IF Truthy(keywords_field)
        THEN KeywordMetasOfParts(uris, parse_multilingual_field(keywords_field[1]))
        ELSE <<>>

\* lines 278-281
CreatorMetas(uris, r) ==
    IF Truthy(row_get(r, "creator"))
    THEN parse_creator(uris, row_get(r, "creator")[1])
    ELSE <<>>

\* the entries re-labelled with the field name instead of its URI
ContributorMetas_named(uris, r) ==
    IF Truthy(row_get(r, "contributor"))
    THEN LET contributors == parse_creator(uris, row_get(r, "contributor")[1])
         IN  [k \in 1..Len(contributors) |->
                 [propertyUri |-> "contributor", value |-> contributors[k].value]]
    ELSE <<>>

\* lines 283-289
ContributorMetas(uris, r) ==
    IF Truthy(row_get(r, "contributor"))
    THEN LET contributors == parse_creator(uris, row_get(r, "contributor")[1])
         IN  [k \in 1..Len(contributors) |->
                 [propertyUri |-> uris.contributor, value |-> contributors[k].value]]
    ELSE <<>>

\* the single entry of a simple field, its text taken as written
SimpleMetas_unstripped(uri, typeUri, field) ==
    IF Truthy(field)
    THEN <<[propertyUri |-> uri, value |-> field[1], typeUri |-> typeUri]>>
    ELSE <<>>

\* the single entry of a simple field
SimpleMetas(uri, typeUri, field) ==
    IF Truthy(field)
    THEN <<[propertyUri |-> uri, value |-> strip(field[1]), typeUri |-> typeUri]>>
    ELSE <<>>

\* lines 224-234
TitleMetas(uris, r) ==
    MultilingualMetas([propertyUri |-> uris.title], row_get(r, "title"))

\* lines 236-247
AlternativeMetas(uris, r) ==
    MultilingualMetas([propertyUri |-> uris.alternative, typeUri |-> XsdString],
                      row_get(r, "alternative"))

\* lines 249-260
DescriptionMetas(uris, r) ==
    MultilingualMetas([propertyUri |-> uris.description, typeUri |-> XsdString],
                      row_get(r, "description"))

\* lines 291-299
CreatedMetas(uris, r) ==
    SimpleMetas(uris.created, XsdString, OrElse(row_get(r, "date"), row_get(r, "created")))

\* lines 301-307
LicenseMetas(uris, r) == SimpleMetas(uris.license, XsdString, row_get(r, "license"))

\* lines 309-315
TypeMetas(uris, r) == SimpleMetas(uris.type, DctermsUri, row_get(r, "type"))

\* lines 317-323
LanguageMetas(uris, r) == SimpleMetas(uris.language, XsdString, row_get(r, "language"))

\* lines 325-336
TemporalMetas(uris, r) ==
    MultilingualMetas([propertyUri |-> uris.temporal, typeUri |-> XsdString],
                      row_get(r, "temporal"))

\* lines 338-349
SpatialMetas(uris, r) ==
    MultilingualMetas([propertyUri |-> uris.spatial, typeUri |-> XsdString],
                      row_get(r, "spatial"))

\* lines 351-357
AccessRightsMetas(uris, r) ==
    SimpleMetas(uris.accessRights, XsdString, row_get(r, "accessRights"))

\* lines 359-365
IdentifierMetas(uris, r) ==
    SimpleMetas(uris.identifier, XsdString, row_get(r, "identifier"))

\* the columns whose text goes through parse_multilingual_field
MultilingualColumns ==
    {"title", "alternative", "description", "creator", "contributor", "temporal", "spatial"}

csv_row_to_nakala_metas_raises(r) ==
    \/ \E key \in MultilingualColumns :
          Truthy(row_get(r, key)) /\ parse_multilingual_field_raises(row_get(r, key)[1])
    \/ LET keywords_field == OrElse(row_get(r, "keywords"), row_get(r, "subject"))
       IN  Truthy(keywords_field) /\ parse_multilingual_field_raises(keywords_field[1])

\* the blocks for license and type written in the opposite order
csv_row_to_nakala_metas_swapped(uris, r) ==
    Flatten(<<TitleMetas(uris, r), AlternativeMetas(uris, r), DescriptionMetas(uris, r),
              SubjectMetas(uris, r), CreatorMetas(uris, r), ContributorMetas(uris, r),
              CreatedMetas(uris, r), TypeMetas(uris, r), LicenseMetas(uris, r),
              LanguageMetas(uris, r), TemporalMetas(uris, r), SpatialMetas(uris, r),
              AccessRightsMetas(uris, r), IdentifierMetas(uris, r)>>)

csv_row_to_nakala_metas(uris, r) ==
    Flatten(<<TitleMetas(uris, r), AlternativeMetas(uris, r), DescriptionMetas(uris, r),
              SubjectMetas(uris, r), CreatorMetas(uris, r), ContributorMetas(uris, r),
              CreatedMetas(uris, r), LicenseMetas(uris, r), TypeMetas(uris, r),
              LanguageMetas(uris, r), TemporalMetas(uris, r), SpatialMetas(uris, r),
              AccessRightsMetas(uris, r), IdentifierMetas(uris, r)>>)

\* the list metas kept between calls instead of starting empty in each call
Call_csv_row_to_nakala_metas_accumulating ==
    /\ op' = "csv_row_to_nakala_metas"
    /\ raised' = IF csv_row_to_nakala_metas_raises(row) THEN "ValueError" ELSE ""
    /\ result' = IF csv_row_to_nakala_metas_raises(row) THEN <<>>
                 ELSE (IF op = "csv_row_to_nakala_metas" THEN result ELSE <<>>)
                      \o csv_row_to_nakala_metas(property_uris, row)
    /\ UNCHANGED <<text, row, property_uris, dataset, http_vars>>

\* the method reads self.property_uris and row (row.get only) and builds its
\* list in the local variable metas; the caller's record of the call (history)
\* is left to the specification that uses the action
Call_csv_row_to_nakala_metas ==
    /\ op' = "csv_row_to_nakala_metas"
    /\ raised' = IF csv_row_to_nakala_metas_raises(row) THEN "ValueError" ELSE ""
    /\ result' = IF csv_row_to_nakala_metas_raises(row) THEN <<>>
                 ELSE csv_row_to_nakala_metas(property_uris, row)
    /\ UNCHANGED <<text, row, property_uris, dataset, http_vars>>

----------------------------------------------------------------------------
(* Calls of csv_row_to_nakala_metas on rows of a few columns, in every     *)
(* column order                                                            *)

Columns ==
    {"title", "alternative", "description", "keywords", "subject", "creator",
     "contributor", "date", "created", "license", "type", "language", "temporal",
     "spatial", "accessRights", "identifier"}

\* an empty cell, a plain cell, and a cell with two language parts, the second
\* holding two values
CellTexts ==
    {<<>>, <<" ", "a">>, <<"e", "n", ":", "a", "|", "b", ";", "c">>}

\* the row with the given columns and cells, in that order
RowOf(keys, cells) == [i \in 1..Len(keys) |-> <<keys[i], cells[i]>>]

InitRow ==
    /\ text = <<>>
    /\ \E n \in 0..MaxRowKeys :
          \E keys \in [1..n -> Columns], cells \in [1..n -> CellTexts] :
              /\ \A i, j \in 1..n : i # j => keys[i] # keys[j]
              /\ row = RowOf(keys, cells)
    /\ property_uris = PropertyUris
    /\ op = "new"
    /\ result = <<>>
    /\ raised = ""
    /\ NothingElse

NextRow == Call_csv_row_to_nakala_metas /\ UNCHANGED history

SpecRow == InitRow /\ [][NextRow]_vars

----------------------------------------------------------------------------
(* Calls of parse_creator on a text and of csv_row_to_nakala_metas on a row *)
(* whose creator or contributor column holds that text                      *)

InitCreatorRow ==
    /\ ChooseCreatorText
    /\ row \in {<<<<"creator", text>>>>, <<<<"contributor", text>>>>}
    /\ property_uris = PropertyUris
    /\ op = "new"
    /\ result = <<>>
    /\ raised = ""
    /\ NothingElse

NextCreatorRow ==
    \/ Call_parse_creator
    \/ Call_csv_row_to_nakala_metas /\ UNCHANGED history

SpecCreatorRow == InitCreatorRow /\ [][NextCreatorRow]_vars

----------------------------------------------------------------------------
(* Properties of the entries of csv_row_to_nakala_metas *)

ContributorUri == "http://purl.org/dc/terms/contributor"

\* a creator record whose orcid, if it has one, is a 19-character identifier
\* of the pattern
OrcidAbsentOrValid(v) ==
    "orcid" \in DOMAIN v => (Len(v.orcid) = 19 /\ IsBareOrcid(v.orcid))

\* C8: every creator or contributor entry produced by parse_creator or
\* csv_row_to_nakala_metas that carries an orcid key has an orcid of exactly 19
\* characters matching \d{4}-\d{4}-\d{4}-\d{3}[\dX].
C8_OrcidValidWhenPresent ==
    /\ op = "parse_creator"
          => \A k \in 1..Len(result) : OrcidAbsentOrValid(result[k].value)
    /\ op = "csv_row_to_nakala_metas"
          => \A k \in 1..Len(result) :
                result[k].propertyUri \in {CreatorUri, ContributorUri}
                    => OrcidAbsentOrValid(result[k].value)

\* a contributor entry of a row carries the identifier that followed its name
C8_Witness ==
    /\ op = "csv_row_to_nakala_metas"
    /\ row = <<<<"contributor", <<"a">> \o Parenthesised(OrcidValidX)>>>>
    /\ Len(result) = 1
    /\ result[1].propertyUri = ContributorUri
    /\ result[1].value.orcid = OrcidValidX

\* the field order of the entries
FieldOrder ==
    <<"http://nakala.fr/terms#title",
      "http://purl.org/dc/terms/alternative",
      "http://purl.org/dc/terms/description",
      "http://purl.org/dc/terms/subject",
      "http://nakala.fr/terms#creator",
      "http://purl.org/dc/terms/contributor",
      "http://nakala.fr/terms#created",
      "http://nakala.fr/terms#license",
      "http://nakala.fr/terms#type",
      "http://purl.org/dc/terms/language",
      "http://purl.org/dc/terms/temporal",
      "http://purl.org/dc/terms/spatial",
      "http://purl.org/dc/terms/accessRights",
      "http://purl.org/dc/terms/identifier">>

FieldRank(uri) == CHOOSE i \in 1..Len(FieldOrder) : FieldOrder[i] = uri

\* C10: csv_row_to_nakala_metas emits its entries in one fixed field order
\* (title, alternative, description, subject, creator, contributor, created,
\* license, type, language, temporal, spatial, accessRights, identifier): no
\* entry of a later field precedes an entry of an earlier field, whatever the
\* order of the keys in the row.
C10_FixedFieldOrder ==
    op = "csv_row_to_nakala_metas"
    => /\ raised = ""
       /\ \A k \in 1..Len(result) : \E i \in 1..Len(FieldOrder) : FieldOrder[i] = result[k].propertyUri
       /\ \A j \in 1..Len(result) : \A k \in j..Len(result) :
              FieldRank(result[j].propertyUri) <= FieldRank(result[k].propertyUri)

\* a row that lists type before title gave the two title entries first and the
\* type entry last
C10_Witness ==
    /\ op = "csv_row_to_nakala_metas"
    /\ Len(row) = 2
    /\ row[1][1] = "type"
    /\ row[2][1] = "title"
    /\ Len(result) = 3
    /\ result[1].propertyUri = "http://nakala.fr/terms#title"
    /\ result[2].propertyUri = "http://nakala.fr/terms#title"
    /\ result[3].propertyUri = "http://nakala.fr/terms#type"

----------------------------------------------------------------------------
(* Repeated calls of csv_row_to_nakala_metas on one converter, on a few     *)
(* rows taken in any order                                                  *)

MaxCalls == 3       \* most calls of csv_row_to_nakala_metas on one converter

\* no column; a multilingual title; a creator and a contributor, whose entries
\* are re-labelled after parse_creator returned them; keywords and a type
RepeatRows ==
    {<<>>,
     <<<<"title", <<"e", "n", ":", "a", "|", "b", ";", "c">>>>>>,
     <<<<"creator", <<" ", "a">>>>, <<"contributor", <<" ", "a">>>>>>,
     <<<<"keywords", <<"e", "n", ":", "a", "|", "b", ";", "c">>>>, <<"type", <<" ", "a">>>>>>}

InitRepeat ==
    /\ text = <<>>
    /\ row \in RepeatRows
    /\ property_uris = PropertyUris
    /\ op = "new"
    /\ result = <<>>
    /\ raised = ""
    /\ NothingElse

\* the caller hands another row to the next call
Take_row ==
    /\ row' \in RepeatRows \ {row}
    /\ UNCHANGED <<text, property_uris, op, result, raised, history, dataset, http_vars>>

\* a call whose argument, outcome and argument as left by the call are recorded
Repeat_csv_row_to_nakala_metas ==
    /\ Len(history) < MaxCalls
    /\ Call_csv_row_to_nakala_metas
    /\ history' = Append(history, [row |-> row, row_after |-> row',
                                   result |-> result', raised |-> raised'])

NextRepeat ==
    \/ Take_row
    \/ Repeat_csv_row_to_nakala_metas

SpecRepeat == InitRepeat /\ [][NextRepeat]_vars

----------------------------------------------------------------------------
(* Shape of the entries of csv_row_to_nakala_metas *)

\* the URIs of the converter's table
FixedPropertyUris == {PropertyUris[f] : f \in DOMAIN PropertyUris}

\* C12: every metadata entry returned by csv_row_to_nakala_metas has a
\* propertyUri key holding one of the converter's fixed property URIs, and has
\* a value key
C12_PropertyUriAndValue ==
    op = "csv_row_to_nakala_metas"
    => \A k \in 1..Len(result) :
          /\ "propertyUri" \in DOMAIN result[k]
          /\ result[k].propertyUri \in FixedPropertyUris
          /\ "value" \in DOMAIN result[k]

\* a row with a contributor and a multilingual description gave a contributor
\* entry, whose value is a record, and description entries, whose value is text
C12_Witness ==
    /\ op = "csv_row_to_nakala_metas"
    /\ Len(result) = 3
    /\ result[1].propertyUri = PropertyUris.description
    /\ "lang" \in DOMAIN result[1]
    /\ result[3].propertyUri = PropertyUris.contributor
    /\ "surname" \in DOMAIN result[3].value

----------------------------------------------------------------------------
(* Calls of csv_row_to_nakala_metas on rows of one column holding any short *)
(* text, alone or next to the column it falls back to or from               *)

MaxCellTokens == 3  \* most tokens in the text of the column under study

CellTokens ==
    {<<"a">>, <<" ">>, <<":">>, <<"|">>, <<";">>, <<"e", "n", ":", "a", ";", "b">>}

\* the columns of the simple fields and of the keyword field
CellColumns ==
    {"date", "created", "license", "type", "language", "temporal", "spatial",
     "accessRights", "identifier", "keywords", "subject"}

\* the column read when the other one is absent or empty, and the reverse
Partner ==
    [date |-> "created", created |-> "date", keywords |-> "subject", subject |-> "keywords"]

InitCell ==
    /\ \E n \in 0..MaxCellTokens : \E toks \in [1..n -> CellTokens] : text = Flatten(toks)
    /\ \E col \in CellColumns :
          \/ row = <<<<col, text>>>>
          \/ /\ col \in DOMAIN Partner
             /\ \E cell \in CellTexts :
                   row \in {<<<<col, text>>, <<Partner[col], cell>>>>,
                            <<<<Partner[col], cell>>, <<col, text>>>>}
    /\ property_uris = PropertyUris
    /\ op = "new"
    /\ result = <<>>
    /\ raised = ""
    /\ NothingElse

NextCell == Call_csv_row_to_nakala_metas /\ UNCHANGED history

SpecCell == InitCell /\ [][NextCell]_vars

----------------------------------------------------------------------------
(* Properties of the simple fields *)

\* the text of a column of the row, '' when the row has no such column
CellOf(r, key) ==
    IF \E i \in 1..Len(r) : r[i][1] = key
    THEN r[CHOOSE i \in 1..Len(r) : r[i][1] = key][2]
    ELSE <<>>

\* the text a field is read from: the created entry comes from the date
\* column, or from the created column when date is absent or empty
FieldText(r, f) ==
    IF f = "created"
    THEN (IF CellOf(r, "date") # <<>> THEN CellOf(r, "date") ELSE CellOf(r, "created"))
    ELSE CellOf(r, f)

\* the entries of the result for one field, in order
EntriesOf(f) == SelectSeq(result, LAMBDA m : m.propertyUri = PropertyUris[f])

\* field f behaved as a simple optional field
SimpleField(f) ==
    IF FieldText(row, f) # <<>>
    THEN /\ Len(EntriesOf(f)) = 1
         /\ EntriesOf(f)[1].value = Trimmed(FieldText(row, f))
         /\ "lang" \notin DOMAIN EntriesOf(f)[1]
    ELSE EntriesOf(f) = <<>>

\* the entry a language part must give: its lang key only for a non-empty lang
ExpectedLangMeta(f, seg) ==
    LET e == ExpectedLangEntry(seg)
        base == [propertyUri |-> PropertyUris[f], typeUri |-> XsdString, value |-> e.value]
    IN  IF e.lang # None /\ e.lang[1] # <<>>
        THEN base @@ ("lang" :> e.lang[1])
        ELSE base

\* field f behaved as a multilingual field
MultilingualField(f) ==
    LET t == FieldText(row, f)
    IN  IF Blank(t) THEN EntriesOf(f) = <<>>
        ELSE /\ Len(EntriesOf(f)) = PieceCount(t, "|")
             /\ \A k \in 1..PieceCount(t, "|") :
                    EntriesOf(f)[k] = ExpectedLangMeta(f, Piece(t, "|", k))

\* C13 as stated: date (or created), license, type, language, temporal,
\* spatial, accessRights and identifier are simple optional fields: one entry
\* with the trimmed text and no lang key when present and non-empty, none
\* when absent or empty
C13_Original ==
    op = "csv_row_to_nakala_metas"
    => \A f \in {"created", "license", "type", "language", "temporal", "spatial",
                 "accessRights", "identifier"} : SimpleField(f)

\* C13 amended: date (or created), license, type, language, accessRights and
\* identifier are simple optional fields: one entry with the trimmed text and
\* no lang key when present and non-empty, none when absent or empty;
\* temporal and spatial are multilingual fields: none for a blank text, else
\* one entry per '|'-separated segment, with the segment's trimmed value and
\* with its lang exactly when the segment has a non-empty lang
C13_SimpleAndMultilingualFields ==
    op = "csv_row_to_nakala_metas"
    => /\ raised = ""
       /\ \A f \in {"created", "license", "type", "language", "accessRights",
                    "identifier"} : SimpleField(f)
       /\ \A f \in {"temporal", "spatial"} : MultilingualField(f)

\* a temporal text of two segments gave a tagged and an untagged entry, the
\* first keeping its ';' inside the value
C13_Witness ==
    /\ op = "csv_row_to_nakala_metas"
    /\ row = <<<<"temporal", <<"e", "n", ":", "a", ";", "b", "|", "a">>>>>>
    /\ Len(result) = 2
    /\ result[1].lang = <<"e", "n">>
    /\ result[1].value = <<"a", ";", "b">>
    /\ "lang" \notin DOMAIN result[2]

----------------------------------------------------------------------------
(* Properties of the keyword field *)

\* the text the subject entries are read from: the keywords column, or the
\* subject column when keywords is absent or empty
KeywordText(r) ==
    IF CellOf(r, "keywords") # <<>> THEN CellOf(r, "keywords") ELSE CellOf(r, "subject")

\* the value of the k-th '|'-separated segment of t, after its language tag
SegmentValue(t, k) == ExpectedLangEntry(Piece(t, "|", k)).value

\* the number of non-empty keywords of the k-th segment of t
KeywordCount(t, k) == Cardinality(KeptPieces(SegmentValue(t, k), ";"))

\* the number of non-empty keywords of the segments before the k-th
RECURSIVE KeywordsBefore(_, _)
KeywordsBefore(t, k) ==
    IF k <= 1 THEN 0 ELSE KeywordsBefore(t, k - 1) + KeywordCount(t, k - 1)

\* the entry the j-th non-empty keyword of the k-th segment of t must give
ExpectedKeywordMeta(t, k, j) ==
    LET lang == ExpectedLangEntry(Piece(t, "|", k)).lang
        base == [propertyUri |-> PropertyUris.subject, typeUri |-> XsdString,
                 value |-> NthKept(SegmentValue(t, k), ";", j)]
    IN  IF lang # None /\ lang[1] # <<>> THEN base @@ ("lang" :> lang[1]) ELSE base

\* C14: the keyword field (the keywords column, or the subject column when
\* keywords is absent or empty) yields exactly one subject entry per non-empty
\* ';'-separated keyword of each '|'-separated language segment, in input
\* order, each carrying the lang of its segment when that lang is non-empty
\* and no lang key otherwise
C14_OneEntryPerKeyword ==
    op = "csv_row_to_nakala_metas"
    => LET t == KeywordText(row)
           n == PieceCount(t, "|")
       IN  /\ raised = ""
           /\ Len(EntriesOf("subject")) = KeywordsBefore(t, n + 1)
           /\ \A k \in 1..n : \A j \in 1..KeywordCount(t, k) :
                  EntriesOf("subject")[KeywordsBefore(t, k) + j] = ExpectedKeywordMeta(t, k, j)

\* an empty keywords column next to a subject column: the subject text gave
\* two tagged keywords of its first segment and an untagged one of its second
C14_Witness ==
    /\ op = "csv_row_to_nakala_metas"
    /\ row = <<<<"subject", <<"e", "n", ":", "a", ";", "b", "|", "a">>>>, <<"keywords", <<>>>>>>
    /\ Len(result) = 3
    /\ result[1] = [propertyUri |-> PropertyUris.subject, typeUri |-> XsdString,
                    value |-> <<"a">>, lang |-> <<"e", "n">>]
    /\ result[2] = [propertyUri |-> PropertyUris.subject, typeUri |-> XsdString,
                    value |-> <<"b">>, lang |-> <<"e", "n">>]
    /\ result[3] = [propertyUri |-> PropertyUris.subject, typeUri |-> XsdString,
                    value |-> <<"a">>]

----------------------------------------------------------------------------
(* CsvConverter.validate_dataset *)

\* dataset.get('metas', [])
dataset_get_metas(d) == IF d.metas = None THEN <<>> ELSE d.metas[1]

\* the required fields listed with creator before type
RequiredFields_creator_first == <<"title", "creator", "type", "created", "license">>

\* required_uris, by field name
RequiredFields == <<"title", "type", "creator", "created", "license">>

\* set([m['propertyUri'] for m in metas])
found_uris(metas) == {metas[i].propertyUri : i \in 1..Len(metas)}

\* [k for k, v in self.property_uris.items() if v == uri][0]
field_name(uris, uri) == CHOOSE k \in DOMAIN uris : uris[k] = uri

MissingMessage(name) ==
    [message |-> "Missing required field for published status: ", field_name |-> name]

TypeMessage(type_value) ==
    [message |-> "Type must be full COAR URI, not ", type_value |-> type_value]

\* the loop over required_uris, from the i-th on
RECURSIVE MissingErrors(_, _, _)
MissingErrors(uris, metas, i) ==
    IF i > Len(RequiredFields) THEN <<>>
    ELSE LET uri == uris[RequiredFields[i]]
         IN  (IF uri \notin found_uris(metas)
              THEN <<MissingMessage(field_name(uris, uri))>>
              ELSE <<>>) \o MissingErrors(uris, metas, i + 1)

HttpScheme == <<"h", "t", "t", "p", ":", "/", "/">>

\* lines 396-401: only type_metas[0] is looked at
TypeErrors(uris, metas) ==
    LET type_metas == SelectSeq(metas, LAMBDA m : m.propertyUri = uris.type)
    IN  IF type_metas # <<>>
        THEN LET type_value == type_metas[1].value
             IN  IF ~startswith(type_value, HttpScheme)
                 THEN <<TypeMessage(type_value)>>
                 ELSE <<>>
        ELSE <<>>

\* the entries read whatever the status of the dataset
validate_dataset_raises_any_status(uris, d) ==
    LET metas == dataset_get_metas(d)
    IN  \/ \E i \in 1..Len(metas) : "propertyUri" \notin DOMAIN metas[i]
        \/ \E i \in 1..Len(metas) :
              /\ metas[i].propertyUri = uris.type
              /\ \A j \in 1..(i - 1) : metas[j].propertyUri # uris.type
              /\ "value" \notin DOMAIN metas[i]

\* m['propertyUri'] of an entry without that key, or ['value'] of the first
\* type entry without that key
validate_dataset_raises(uris, d) ==
    /\ d.status = Some("published")
    /\ LET metas == dataset_get_metas(d)
       IN  \/ \E i \in 1..Len(metas) : "propertyUri" \notin DOMAIN metas[i]
           \/ \E i \in 1..Len(metas) :
                 /\ metas[i].propertyUri = uris.type
                 /\ \A j \in 1..(i - 1) : metas[j].propertyUri # uris.type
                 /\ "value" \notin DOMAIN metas[i]

\* the pair (len(errors) == 0, errors)
validate_dataset(uris, d) ==
    LET errors == IF d.status = Some("published")
                  THEN MissingErrors(uris, dataset_get_metas(d), 1)
                       \o TypeErrors(uris, dataset_get_metas(d))
                  ELSE <<>>
    IN  <<Len(errors) = 0, errors>>

\* the method reads dataset with .get and never assigns to it
Call_validate_dataset ==
    /\ op' = "validate_dataset"
    /\ raised' = IF validate_dataset_raises(property_uris, dataset) THEN "KeyError" ELSE ""
    /\ result' = IF validate_dataset_raises(property_uris, dataset) THEN <<>>
                 ELSE validate_dataset(property_uris, dataset)
    /\ UNCHANGED <<text, row, property_uris, history, dataset, http_vars>>

----------------------------------------------------------------------------
(* Calls of validate_dataset on datasets with any of the required fields    *)
(* and a few type entries                                                   *)

MaxTypeMetas == 2   \* most type entries in the metas of a dataset

\* a full http URI, an https URI and a bare code
TypeValues ==
    {<<"h", "t", "t", "p", ":", "/", "/", "c">>,
     <<"h", "t", "t", "p", "s", ":", "/", "/", "c">>,
     <<"c">>}

Statuses == {None, Some("pending"), Some("published")}

\* the entries of the fields of S, each with a one-letter value
PlainMetas(S) ==
    LET fields == SelectSeq(<<"title", "description", "creator", "created", "license">>,
                            LAMBDA f : f \in S)
    IN  [k \in 1..Len(fields) |-> [propertyUri |-> PropertyUris[fields[k]], value |-> <<"a">>]]

TypeMetasOf(values) ==
    [k \in 1..Len(values) |->
        [propertyUri |-> PropertyUris.type, value |-> values[k], typeUri |-> DctermsUri]]

InitValidate ==
    /\ text = <<>>
    /\ row = EmptyRow
    /\ property_uris = PropertyUris
    /\ op = "new"
    /\ result = <<>>
    /\ raised = ""
    /\ history = <<>>
    /\ requests = <<>>
    /\ response = NoResponse
    /\ pc = "idle"
    /\ paused = FALSE
    /\ demo = None
    /\ \E status \in Statuses :
          \/ dataset = [status |-> status, metas |-> None]
          \/ \E S \in SUBSET {"title", "description", "creator", "created", "license"} :
             \E n \in 0..MaxTypeMetas : \E values \in [1..n -> TypeValues] :
                dataset \in {[status |-> status,
                              metas |-> Some(PlainMetas(S) \o TypeMetasOf(values))],
                             [status |-> status,
                              metas |-> Some(TypeMetasOf(values) \o PlainMetas(S))]}

NextValidate == Call_validate_dataset

SpecValidate == InitValidate /\ [][NextValidate]_vars

----------------------------------------------------------------------------
(* Properties of validate_dataset *)

\* the two components of the returned pair
ReturnedValid == result[1]

ReturnedErrors == result[2]

\* the required fields without an entry in the metas of the dataset
MissingFields ==
    {f \in {"title", "type", "creator", "created", "license"} :
        \A i \in 1..Len(dataset_get_metas(dataset)) :
            dataset_get_metas(dataset)[i].propertyUri # PropertyUris[f]}

\* the 'Missing required field' messages of the error list, in order
MissingMessages == SelectSeq(ReturnedErrors, LAMBDA e : "field_name" \in DOMAIN e)

RequiredRank(f) ==
    CASE f = "title" -> 1 [] f = "type" -> 2 [] f = "creator" -> 3
      [] f = "created" -> 4 [] f = "license" -> 5

\* C15: on a published dataset the error list holds exactly one 'Missing
\* required field' message, naming the field, for each of title, type,
\* creator, created and license without an entry in metas, in that order;
\* is_valid is False when a field is missing, and is True exactly when the
\* error list is empty
C15_MissingRequiredFields ==
    (op = "validate_dataset" /\ dataset.status = Some("published"))
    => /\ raised = ""
       /\ Len(MissingMessages) = Cardinality(MissingFields)
       /\ \A f \in MissingFields :
              \E k \in 1..Len(MissingMessages) : MissingMessages[k] = MissingMessage(f)
       /\ \A j, k \in 1..Len(MissingMessages) :
              j < k => RequiredRank(MissingMessages[j].field_name)
                       < RequiredRank(MissingMessages[k].field_name)
       /\ MissingFields # {} => ReturnedValid = FALSE
       /\ ReturnedValid = (ReturnedErrors = <<>>)

\* a published dataset with a title and a created entry only: three messages,
\* for type, creator and license
C15_Witness ==
    /\ op = "validate_dataset"
    /\ dataset.status = Some("published")
    /\ MissingFields = {"type", "creator", "license"}
    /\ ReturnedValid = FALSE
    /\ ReturnedErrors = <<MissingMessage("type"), MissingMessage("creator"), MissingMessage("license")>>

\* the type entries of the dataset, in order
TypeEntries == SelectSeq(dataset_get_metas(dataset), LAMBDA m : m.propertyUri = PropertyUris.type)

Letter == {"a", "b", "c", "e", "h", "n", "p", "s", "t"}

\* an absolute URI starts with a scheme, letters followed by ':'
IsAbsoluteUri(v) ==
    \E i \in 2..Len(v) : v[i] = ":" /\ \A j \in 1..(i - 1) : v[j] \in Letter

\* the 'Type must be full COAR URI' messages of the error list, in order
TypeMessages == SelectSeq(ReturnedErrors, LAMBDA e : "type_value" \in DOMAIN e)

\* C16 as stated: a published dataset with all five required properties is
\* returned (True, []) when its type value is an absolute URI and False with a
\* type error when it is not, every type entry being subject to this check
C16_Original ==
    (op = "validate_dataset" /\ dataset.status = Some("published") /\ MissingFields = {})
    => /\ (\A k \in 1..Len(TypeEntries) : IsAbsoluteUri(TypeEntries[k].value))
              => result = <<TRUE, <<>>>>
       /\ (\E k \in 1..Len(TypeEntries) : ~IsAbsoluteUri(TypeEntries[k].value))
              => ReturnedValid = FALSE /\ TypeMessages # <<>>

----------------------------------------------------------------------------
(* Calls of the four parsing methods on malformed texts and on rows holding *)
(* them                                                                     *)

\* a letter, a blank, stray delimiters, loose parentheses and a parenthesised
\* 19-character group that is not an ORCID
MalformedTokens ==
    {<<"a">>, <<" ">>, <<",">>, <<";">>, <<"|">>, <<":">>, <<"(">>, <<")">>,
     Parenthesised(OrcidInvalid)}

\* a multilingual column, the multi-valued column and a parse_creator column
MalformedColumns == {"title", "keywords", "contributor"}

InitMalformed ==
    /\ \E n \in 0..MaxCreatorTokens : \E tokens \in [1..n -> MalformedTokens] :
          text = Flatten(tokens)
    /\ \E col \in MalformedColumns : row = <<<<col, text>>>>
    /\ property_uris = PropertyUris
    /\ op = "new"
    /\ result = <<>>
    /\ raised = ""
    /\ NothingElse

NextMalformed ==
    \/ Call_parse_multilingual_field
    \/ Call_normalize_orcid
    \/ Call_parse_creator
    \/ Call_csv_row_to_nakala_metas /\ UNCHANGED history

SpecMalformed == InitMalformed /\ [][NextMalformed]_vars

\* C17: the converter never raises on malformed input: on any text, and on
\* any row holding such a text, csv_row_to_nakala_metas, parse_creator,
\* parse_multilingual_field and normalize_orcid return a value and raise no
\* exception
C17_NeverRaises ==
    op \in {"csv_row_to_nakala_metas", "parse_creator", "parse_multilingual_field",
            "normalize_orcid"}
    => raised = ""

\* a contributor text with two colons and a rejected ORCID group was converted
\* to one entry without an orcid
C17_Witness ==
    /\ op = "csv_row_to_nakala_metas"
    /\ raised = ""
    /\ row = <<<<"contributor", <<":", ":">> \o Parenthesised(OrcidInvalid)>>>>
    /\ Len(result) = 1
    /\ result[1].value.surname = <<":">>
    /\ "orcid" \notin DOMAIN result[1].value

----------------------------------------------------------------------------
(* The functions of src/nakala/api_client.py                                *)
(*                                                                          *)
(* A request is what is handed to the requests library; what comes back is  *)
(* the server's choice of a status and a body, or an exception raised by    *)
(* the library instead of a response.                                       *)

StatusCodes == {200, 201, 204, 404, 500}

\* a JSON object holding the keys its reader looks up ('sha1', 'payload'), a
\* JSON object without them, and a body that is not JSON
Bodies == {"complete", "partial", "text"}

\* requests raised instead of returning a response
ConnectionError == [status |-> 0, body |-> "ConnectionError"]

Outcomes == [status : StatusCodes, body : Bodies] \cup {ConnectionError}

\* response.json() raises on a body that is not JSON
json_raises(resp) == resp.body = "text"

\* the one request each function builds
ApiRequest(fn) ==
    CASE fn = "upload_file" ->
            [method |-> "POST", endpoint |-> "/datas/uploads",
             headers |-> {"X-API-KEY"}, payload |-> "files"]
      [] fn = "create_dataset" ->
            [method |-> "POST", endpoint |-> "/datas",
             headers |-> {"Content-Type", "X-API-KEY"}, payload |-> "json"]
      [] fn = "get_dataset" ->
            [method |-> "GET", endpoint |-> "/datas/{dataset_id}",
             headers |-> {"X-API-KEY"}, payload |-> "none"]
      [] fn = "modify_dataset" ->
            [method |-> "PUT", endpoint |-> "/datas/{dataset_id}",
             headers |-> {"Content-Type", "X-API-KEY"}, payload |-> "json"]
      [] fn = "delete_dataset" ->
            [method |-> "DELETE", endpoint |-> "/datas/{dataset_id}",
             headers |-> {"X-API-KEY"}, payload |-> "none"]
      [] fn = "create_collection" ->
            [method |-> "POST", endpoint |-> "/collections",
             headers |-> {"Content-Type", "X-API-KEY"}, payload |-> "json"]
      [] fn = "get_collection" ->
            [method |-> "GET", endpoint |-> "/collections/{collection_id}",
             headers |-> {"X-API-KEY"}, payload |-> "none"]
      [] fn = "modify_collection" ->
            [method |-> "PUT", endpoint |-> "/collections/{collection_id}",
             headers |-> {"Content-Type", "X-API-KEY"}, payload |-> "json"]
      [] fn = "delete_collection" ->
            [method |-> "DELETE", endpoint |-> "/collections/{collection_id}",
             headers |-> {"X-API-KEY"}, payload |-> "none"]

\* the request sent again after a response that is not 2xx
RequestsOf_retrying(fn, outcome) ==
    IF outcome.status \in {200, 201, 204}
    THEN <<ApiRequest(fn)>>
    ELSE <<ApiRequest(fn), ApiRequest(fn)>>

\* the requests a call issues, given what its first request comes back with:
\* every function calls requests.get/post/put/delete once and then returns
RequestsOf(fn, outcome) == <<ApiRequest(fn)>>

\* the getters returning the JSON of any 2xx response
GetResult_any_2xx(outcome) ==
    IF outcome.status \in {200, 201, 204} /\ ~json_raises(outcome)
    THEN Some(outcome.body)
    ELSE None

\* get_dataset and get_collection: the JSON on 200, None on any other status
\* and on any exception of requests.get or response.json()
GetResult(outcome) ==
    IF outcome # ConnectionError /\ outcome.status = 200 /\ ~json_raises(outcome)
    THEN Some(outcome.body)
    ELSE None

\* upload_file: the JSON with the embargoed date added on 201; None on any
\* other status and on any exception of requests.post, response.json() or
\* file_info['sha1']
UploadResult(outcome) ==
    IF outcome # ConnectionError /\ outcome.status = 201 /\ outcome.body = "complete"
    THEN Some([file_info |-> outcome.body, embargoed |-> "today"])
    ELSE None

\* the caller's record of a call: the function and the length of the request
\* log before and after it
CallRecord(fn) == [op |-> fn, before |-> Len(requests), after |-> Len(requests')]

\* a function that returns the response object and lets exceptions through
ReturnsResponse(fn) ==
    /\ Len(history) < MaxCalls
    /\ \E outcome \in Outcomes :
          /\ requests' = requests \o RequestsOf(fn, outcome)
          /\ response' = outcome
          /\ raised' = IF outcome = ConnectionError THEN "ConnectionError" ELSE ""
          /\ result' = IF outcome = ConnectionError THEN None ELSE Some(outcome)
    /\ op' = fn
    /\ history' = Append(history, CallRecord(fn))
    /\ UNCHANGED <<text, row, property_uris, dataset, pc, paused, demo>>

\* a function whose try block covers the request and the reading of the JSON
ReturnsJson(fn) ==
    /\ Len(history) < MaxCalls
    /\ \E outcome \in Outcomes :
          /\ requests' = requests \o RequestsOf(fn, outcome)
          /\ response' = outcome
          /\ result' = GetResult(outcome)
    /\ raised' = ""
    /\ op' = fn
    /\ history' = Append(history, CallRecord(fn))
    /\ UNCHANGED <<text, row, property_uris, dataset, pc, paused, demo>>

\* open(file_path, 'rb') fails before any request, or the file is posted
Call_upload_file ==
    /\ Len(history) < MaxCalls
    /\ \/ /\ result' = None
          /\ UNCHANGED <<requests, response>>
       \/ \E outcome \in Outcomes :
             /\ requests' = requests \o RequestsOf("upload_file", outcome)
             /\ response' = outcome
             /\ result' = UploadResult(outcome)
    /\ raised' = ""
    /\ op' = "upload_file"
    /\ history' = Append(history, CallRecord("upload_file"))
    /\ UNCHANGED <<text, row, property_uris, dataset, pc, paused, demo>>

Call_create_dataset == ReturnsResponse("create_dataset")

Call_get_dataset == ReturnsJson("get_dataset")

Call_modify_dataset == ReturnsResponse("modify_dataset")

Call_delete_dataset == ReturnsResponse("delete_dataset")

Call_create_collection == ReturnsResponse("create_collection")

Call_get_collection == ReturnsJson("get_collection")

Call_modify_collection == ReturnsResponse("modify_collection")

Call_delete_collection == ReturnsResponse("delete_collection")

InitApi ==
    /\ text = <<>>
    /\ row = EmptyRow
    /\ property_uris = PropertyUris
    /\ op = "new"
    /\ result = <<>>
    /\ raised = ""
    /\ NothingElse

NextApi ==
    \/ Call_upload_file
    \/ Call_create_dataset
    \/ Call_get_dataset
    \/ Call_modify_dataset
    \/ Call_delete_dataset
    \/ Call_create_collection
    \/ Call_get_collection
    \/ Call_modify_collection
    \/ Call_delete_collection

SpecApi == InitApi /\ [][NextApi]_vars

----------------------------------------------------------------------------
(* Properties of the api_client functions *)

ApiOperations ==
    {"upload_file", "create_dataset", "get_dataset", "modify_dataset", "delete_dataset",
     "create_collection", "get_collection", "modify_collection", "delete_collection"}

\* C18 as stated: every call of an api_client operation issues exactly one
\* HTTP request, whatever the response
C18_Original ==
    \A i \in 1..Len(history) :
        history[i].op \in ApiOperations => history[i].after = history[i].before + 1

\* C18 amended: every call of an api_client operation issues at most one HTTP
\* request, whatever the response, and exactly one unless it is an upload_file
\* call; an upload_file call that issued none returned null
C18_AtMostOneRequest ==
    /\ \A i \in 1..Len(history) :
          history[i].op \in ApiOperations
          => /\ history[i].after <= history[i].before + 1
             /\ history[i].op # "upload_file" => history[i].after = history[i].before + 1
    /\ (/\ op = "upload_file"
        /\ history[Len(history)].after = history[Len(history)].before)
       => result = None

\* a request answered 500 was followed by the next call's request, not by a
\* second request of the same call
C18_Witness ==
    /\ Len(history) = 2
    /\ Len(requests) = 2
    /\ requests[1].method = "PUT"
    /\ requests[2].method = "DELETE"
    /\ response.status = 500
    /\ history[1].op = "modify_dataset"
    /\ history[2].op = "delete_collection"

\* the last call issued a request, so that response is what it came back with
LastCallSent == history[Len(history)].after > history[Len(history)].before

\* the last call's request was answered, with the given status
Answered(status) == LastCallSent /\ response # ConnectionError /\ response.status = status

\* C19: get_dataset and get_collection return the response JSON on status 200
\* and null on any other status or any exception; upload_file returns the file
\* info on status 201 and null on any other status or any exception; none of
\* the three lets an exception reach the caller
C19_NullOnFailure ==
    /\ op \in {"get_dataset", "get_collection"}
       => /\ raised = ""
          /\ (Answered(200) /\ response.body # "text") => result = Some(response.body)
          /\ (~Answered(200) \/ response.body = "text") => result = None
    /\ op = "upload_file"
       => /\ raised = ""
          /\ (Answered(201) /\ response.body = "complete")
                => result = Some([file_info |-> response.body, embargoed |-> "today"])
          /\ (~Answered(201) \/ response.body # "complete") => result = None

\* after an upload_file call that issued its request, a get_collection call
\* whose request failed in transport returned null without raising
C19_Witness ==
    /\ Len(history) = 2
    /\ history[1].op = "upload_file"
    /\ history[1].after = 1
    /\ op = "get_collection"
    /\ response = ConnectionError
    /\ result = None
    /\ raised = ""

----------------------------------------------------------------------------
(* demo_helpers.make_api_request and wait_for_user *)

\* the HTTP verbs make_api_request dispatches on
Verbs == {"GET", "POST", "PUT", "PATCH", "DELETE"}

\* every method name dispatched, none raising
make_api_request_raises_never(method) == ""

\* raise ValueError(f"Unsupported HTTP method: {method}")
make_api_request_raises(method) == IF method \in Verbs THEN "" ELSE "ValueError"

\* requests.get given the JSON body as the other four verbs are
make_api_request_body_on_get(method, endpoint, data) ==
    [method |-> method, endpoint |-> endpoint,
     headers |-> IF data THEN {"X-API-KEY", "Content-Type"} ELSE {"X-API-KEY"},
     payload |-> IF data THEN "json" ELSE "none"]

\* the request built for a verb, an endpoint and an optional payload (data is
\* the truth value of the data argument): the Content-Type header goes with a
\* truthy data argument, and so does the JSON body, except that requests.get
\* is called with the headers only
make_api_request(method, endpoint, data) ==
    [method |-> method, endpoint |-> endpoint,
     headers |-> IF data THEN {"X-API-KEY", "Content-Type"} ELSE {"X-API-KEY"},
     payload |-> IF data /\ method # "GET" THEN "json" ELSE "none"]

----------------------------------------------------------------------------
(* DatasetLifecycleDemo.run_complete_lifecycle                              *)
(*                                                                          *)
(* pc names the request the script is about to issue; each action issues    *)
(* it, takes the server's answer and follows the script to its next         *)
(* request, to the end of the script ("done") or out of it by an exception  *)
(* ("failed").                                                              *)

Sites ==
    {"step1_upload", "step1_create", "step2_get", "step3_patch", "step5_put",
     "step5_get", "step6_publish", "step6_delete", "step7_upload", "step7_create",
     "step7_delete", "step7_get"}

\* step 7 deleting the primary dataset instead of the temporary one
DemoRequest_deletes_primary(site) ==
    CASE site = "step1_upload" ->
            [method |-> "POST", endpoint |-> "/datas/uploads",
             headers |-> {"X-API-KEY"}, payload |-> "files"]
      [] site = "step1_create" -> make_api_request("POST", "/datas", TRUE)
      [] site = "step2_get" -> make_api_request("GET", "/datas/{dataset_id}", FALSE)
      [] site = "step3_patch" -> make_api_request("PATCH", "/datas/{dataset_id}", TRUE)
      [] site = "step5_put" -> make_api_request("PUT", "/datas/{dataset_id}", TRUE)
      [] site = "step5_get" -> make_api_request("GET", "/datas/{dataset_id}", FALSE)
      [] site = "step6_publish" ->
            make_api_request("PUT", "/datas/{dataset_id}/status/published", FALSE)
      [] site = "step6_delete" -> make_api_request("DELETE", "/datas/{dataset_id}", FALSE)
      [] site = "step7_upload" ->
            [method |-> "POST", endpoint |-> "/datas/uploads",
             headers |-> {"X-API-KEY"}, payload |-> "files"]
      [] site = "step7_create" -> make_api_request("POST", "/datas", TRUE)
      [] site = "step7_delete" ->
            make_api_request("DELETE", "/datas/{dataset_id}", FALSE)
      [] site = "step7_get" -> make_api_request("GET", "/datas/{temp_dataset_id}", FALSE)

\* the request issued at each place of the script
DemoRequest(site) ==
    CASE site = "step1_upload" ->
            [method |-> "POST", endpoint |-> "/datas/uploads",
             headers |-> {"X-API-KEY"}, payload |-> "files"]
      [] site = "step1_create" -> make_api_request("POST", "/datas", TRUE)
      [] site = "step2_get" -> make_api_request("GET", "/datas/{dataset_id}", FALSE)
      [] site = "step3_patch" -> make_api_request("PATCH", "/datas/{dataset_id}", TRUE)
      [] site = "step5_put" -> make_api_request("PUT", "/datas/{dataset_id}", TRUE)
      [] site = "step5_get" -> make_api_request("GET", "/datas/{dataset_id}", FALSE)
      [] site = "step6_publish" ->
            make_api_request("PUT", "/datas/{dataset_id}/status/published", FALSE)
      [] site = "step6_delete" -> make_api_request("DELETE", "/datas/{dataset_id}", FALSE)
      [] site = "step7_upload" ->
            [method |-> "POST", endpoint |-> "/datas/uploads",
             headers |-> {"X-API-KEY"}, payload |-> "files"]
      [] site = "step7_create" -> make_api_request("POST", "/datas", TRUE)
      [] site = "step7_delete" ->
            make_api_request("DELETE", "/datas/{temp_dataset_id}", FALSE)
      [] site = "step7_get" -> make_api_request("GET", "/datas/{temp_dataset_id}", FALSE)

\* the exception that ends the step, "" when the step goes on: a transport
\* error, the script's own raise on an unexpected status, or a failed read of
\* the answer (response.json(), file_info['sha1'], result['payload']['id'])
StepRaises(site, o) ==
    IF o = ConnectionError THEN "ConnectionError"
    ELSE CASE site = "step1_upload" ->
                 IF o.status # 201 THEN "Exception"
                 ELSE IF o.body = "text" THEN "JSONDecodeError"
                 ELSE IF o.body = "partial" THEN "KeyError" ELSE ""
           [] site = "step1_create" ->
                 IF o.status # 201 THEN "Exception"
                 ELSE IF o.body = "text" THEN "JSONDecodeError"
                 ELSE IF o.body = "partial" THEN "KeyError" ELSE ""
           [] site = "step2_get" ->
                 IF o.status # 200 THEN "Exception"
                 ELSE IF o.body = "text" THEN "JSONDecodeError" ELSE ""
           [] site = "step5_put" -> IF o.status # 204 THEN "Exception" ELSE ""
           [] site = "step5_get" -> IF o.body = "text" THEN "JSONDecodeError" ELSE ""
           [] site = "step7_upload" ->
                 IF o.status = 201 /\ o.body = "text" THEN "JSONDecodeError" ELSE ""
           [] site = "step7_create" ->
                 IF o.status # 201 THEN ""
                 ELSE IF o.body = "text" THEN "JSONDecodeError"
                 ELSE IF o.body = "partial" THEN "KeyError" ELSE ""
           [] OTHER -> ""

\* the full-replacement PUT going on to the next step after any status, as the
\* PATCH of step 3 does
NextSite_put_goes_on(site, o) ==
    IF site = "step5_put"
    THEN (IF o = ConnectionError THEN "failed"
          ELSE IF o.status = 204 THEN "step5_get" ELSE "step6_publish")
    ELSE IF StepRaises(site, o) # "" THEN "failed"
    ELSE CASE site = "step1_upload" -> "step1_create"
           [] site = "step1_create" -> "step2_get"
           [] site = "step2_get" -> "step3_patch"
           [] site = "step3_patch" -> "step4"
           [] site = "step5_get" -> "step6_publish"
           [] site = "step6_publish" -> IF o.status = 204 THEN "step6_delete" ELSE "step7_upload"
           [] site = "step6_delete" -> "step7_upload"
           [] site = "step7_upload" -> IF o.status = 201 THEN "step7_create" ELSE "done"
           [] site = "step7_create" -> IF o.status = 201 THEN "step7_delete" ELSE "done"
           [] site = "step7_delete" -> IF o.status = 204 THEN "step7_get" ELSE "done"
           [] site = "step7_get" -> "done"

\* where the script is after the answer o to the request of site: an
\* exception leaves every step and run_complete_lifecycle re-raises it
NextSite(site, o) ==
    IF StepRaises(site, o) # "" THEN "failed"
    ELSE CASE site = "step1_upload" -> "step1_create"
           [] site = "step1_create" -> "step2_get"
           [] site = "step2_get" -> "step3_patch"
           [] site = "step3_patch" -> "step4"
           [] site = "step5_put" -> "step5_get"
           [] site = "step5_get" -> "step6_publish"
           [] site = "step6_publish" -> IF o.status = 204 THEN "step6_delete" ELSE "step7_upload"
           [] site = "step6_delete" -> "step7_upload"
           [] site = "step7_upload" -> IF o.status = 201 THEN "step7_create" ELSE "done"
           [] site = "step7_create" -> IF o.status = 201 THEN "step7_delete" ELSE "done"
           [] site = "step7_delete" -> IF o.status = 204 THEN "step7_get" ELSE "done"
           [] site = "step7_get" -> "done"

\* whether time.sleep(RATE_LIMIT_DELAY) or wait_for_user() runs between the
\* answer to the request of site and the script's next request
PauseAfter(site, next) ==
    /\ next \notin {"failed", "done"}
    /\ ~(site = "step1_upload" /\ next = "step1_create")
    /\ ~(site = "step7_upload" /\ next = "step7_create")

\* the places whose request the claim on failures is about
RaisingSites == {"step1_upload", "step1_create", "step2_get", "step5_put"}

\* the script issues the request of its current place and takes the answer;
\* the log keeps with the request whether a pause came before it and the
\* status it was answered with (0 for a transport error); history keeps the
\* status each of the four checked requests came back with
AtSite(site) ==
    /\ pc = site
    /\ \E o \in Outcomes :
          /\ requests' = Append(requests, DemoRequest(site)
                                           @@ ("after_pause" :> paused)
                                           @@ ("answer" :> o.status))
          /\ response' = o
          /\ pc' = NextSite(site, o)
          /\ raised' = StepRaises(site, o)
          /\ paused' = PauseAfter(site, NextSite(site, o))
          /\ demo' = IF site = "step1_create" /\ StepRaises(site, o) = ""
                     THEN [demo EXCEPT !.dataset_id = Some("id")]
                     ELSE demo
          /\ history' = IF site \in RaisingSites /\ o # ConnectionError
                        THEN Append(history, [site |-> site, status |-> o.status,
                                              at |-> Len(requests')])
                        ELSE history
    /\ op' = "run_complete_lifecycle"
    /\ UNCHANGED <<text, row, property_uris, result, dataset>>

\* the banner and the first wait_for_user
Start_run_complete_lifecycle ==
    /\ pc = "start"
    /\ pc' = "step1_upload"
    /\ paused' = TRUE
    /\ op' = "run_complete_lifecycle"
    /\ UNCHANGED <<text, row, property_uris, result, raised, history, dataset,
                   requests, response, demo>>

step_1_post_create_dataset == AtSite("step1_upload") \/ AtSite("step1_create")

step_2_get_verify_creation == AtSite("step2_get")

step_3_patch_partial_update == AtSite("step3_patch")

\* prints only, then wait_for_user
step_4_patch_add_keyword ==
    /\ pc = "step4"
    /\ pc' = "step5_put"
    /\ paused' = TRUE
    /\ UNCHANGED <<text, row, property_uris, op, result, raised, history, dataset,
                   requests, response, demo>>

step_5_put_full_replacement == AtSite("step5_put") \/ AtSite("step5_get")

step_6_delete_attempt_published == AtSite("step6_publish") \/ AtSite("step6_delete")

step_7_delete_pending_dataset ==
    \/ AtSite("step7_upload")
    \/ AtSite("step7_create")
    \/ AtSite("step7_delete")
    \/ AtSite("step7_get")

InitLifecycle ==
    /\ text = <<>>
    /\ row = EmptyRow
    /\ property_uris = PropertyUris
    /\ op = "new"
    /\ result = <<>>
    /\ raised = ""
    /\ history = <<>>
    /\ dataset = EmptyDataset
    /\ requests = <<>>
    /\ response = NoResponse
    /\ pc = "start"
    /\ paused = FALSE
    /\ demo = [dataset_id |-> None, pending_dataset_id |-> None]

NextLifecycle ==
    \/ Start_run_complete_lifecycle
    \/ step_1_post_create_dataset
    \/ step_2_get_verify_creation
    \/ step_3_patch_partial_update
    \/ step_4_patch_add_keyword
    \/ step_5_put_full_replacement
    \/ step_6_delete_attempt_published
    \/ step_7_delete_pending_dataset

SpecLifecycle == InitLifecycle /\ [][NextLifecycle]_vars

----------------------------------------------------------------------------
(* Properties of the dataset lifecycle script *)

\* the status each checked request is expected to come back with
ExpectedStatus(site) ==
    CASE site = "step1_upload" -> 201
      [] site = "step1_create" -> 201
      [] site = "step2_get" -> 200
      [] site = "step5_put" -> 204

\* C20: in run_complete_lifecycle, once the file upload, the dataset-creation
\* POST, the verification GET or the full-replacement PUT has come back with
\* an unexpected status, the step has raised, the script has stopped, and no
\* request has been issued after that one
C20_StopsOnUnexpectedStatus ==
    \A i \in 1..Len(history) :
        history[i].status # ExpectedStatus(history[i].site)
        => /\ pc = "failed"
           /\ raised = "Exception"
           /\ Len(requests) = history[i].at

\* the PUT of step 5, fifth request of the run, came back 500 and ended the run
C20_Witness ==
    /\ pc = "failed"
    /\ raised = "Exception"
    /\ Len(requests) = 5
    /\ requests[5].method = "PUT"
    /\ response.status = 500
    /\ history[Len(history)] = [site |-> "step5_put", status |-> 500, at |-> 5]

\* the requests of the run, from the second on, that no pause came before
BackToBack == {i \in 2..Len(requests) : ~requests[i].after_pause}

\* C21 (as stated): in run_complete_lifecycle any two consecutive HTTP
\* requests are separated by a pause, a RATE_LIMIT_DELAY sleep or a
\* wait_for_user call
C21_Original == BackToBack = {}

\* C25: in run_complete_lifecycle a DELETE for the primary dataset is issued
\* only after PUT /datas/{dataset_id}/status/published was answered 204, so
\* there is none in a run whose publish request was answered otherwise, and
\* after the publish request no PUT, PATCH or POST is issued on the primary
\* dataset
PrimaryEndpoints == {"/datas/{dataset_id}", "/datas/{dataset_id}/status/published"}

PublishRequests ==
    {i \in 1..Len(requests) :
        /\ requests[i].method = "PUT"
        /\ requests[i].endpoint = "/datas/{dataset_id}/status/published"}

PrimaryDeletes ==
    {i \in 1..Len(requests) :
        /\ requests[i].method = "DELETE"
        /\ requests[i].endpoint = "/datas/{dataset_id}"}

C25_DeleteOnlyAfterPublished ==
    /\ \A d \in PrimaryDeletes :
          \E p \in PublishRequests : p < d /\ requests[p].answer = 204
    /\ (\E p \in PublishRequests : requests[p].answer # 204) => PrimaryDeletes = {}
    /\ \A p \in PublishRequests : \A j \in (p + 1)..Len(requests) :
          requests[j].endpoint \in PrimaryEndpoints => requests[j].method = "DELETE"

\* the publish request was answered 404, step 7 created and deleted its own
\* temporary dataset, and the run ended with no DELETE for the primary one
C25_Witness ==
    /\ pc = "done"
    /\ \E p \in PublishRequests : requests[p].answer = 404
    /\ \E j \in 1..Len(requests) :
          /\ requests[j].method = "DELETE"
          /\ requests[j].endpoint = "/datas/{temp_dataset_id}"
    /\ PrimaryDeletes = {}

----------------------------------------------------------------------------
(* CompleteNAKALALifecycleDemo.run_complete_lifecycle                       *)
(*                                                                          *)
(* As above, pc names the request the script is about to issue. A body is   *)
(* "pending" or "published" (a JSON object with every key the script reads, *)
(* whose status is that word), "partial" (a JSON object without them) or    *)
(* "text" (not JSON).                                                       *)

StatusBodies == {"pending", "published", "partial", "text"}

DemoOutcomes == [status : StatusCodes, body : StatusBodies] \cup {ConnectionError}

\* requests.post(upload_url, files=files, headers=headers)
UploadRequest ==
    [method |-> "POST", endpoint |-> "/datas/uploads",
     headers |-> {"X-API-KEY"}, payload |-> "files"]

\* the request issued at each place of the script
CompleteRequest(site) ==
    CASE site = "upload" -> UploadRequest
      [] site = "create_dataset" -> make_api_request("POST", "/datas", TRUE)
      [] site \in {"add_description", "add_keyword_1", "add_keyword_2",
                   "add_keyword_3", "add_keyword_4"} ->
            make_api_request("POST", "/datas/{dataset_id}/metadatas", TRUE)
      [] site \in {"verify_dataset", "verify_unlink_dataset", "get_dataset",
                   "verify_dataset_gone"} ->
            make_api_request("GET", "/datas/{dataset_id}", FALSE)
      [] site = "create_collection" -> make_api_request("POST", "/collections", TRUE)
      [] site = "link" -> make_api_request("POST", "/datas/{dataset_id}/collections", TRUE)
      [] site \in {"verify_link", "verify_status", "verify_unlink_collection",
                   "verify_collection_gone"} ->
            make_api_request("GET", "/collections/{collection_id}", FALSE)
      [] site \in {"add_tag_1", "add_tag_2", "add_tag_3"} ->
            make_api_request("POST", "/collections/{collection_id}/metadatas", TRUE)
      [] site = "publish_collection" ->
            make_api_request("PUT", "/collections/{collection_id}/status/public", FALSE)
      [] site = "unlink" ->
            make_api_request("DELETE", "/datas/{dataset_id}/collections", TRUE)
      [] site = "delete_collection" ->
            make_api_request("DELETE", "/collections/{collection_id}", FALSE)
      [] site = "delete_dataset" ->
            make_api_request("DELETE", "/datas/{dataset_id}", FALSE)

\* the exception that ends the run, "" when the script goes on: a transport
\* error or a failed read of the answer (response.json(), file_info['sha1'],
\* result['payload']['id'])
CompleteRaises(site, o) ==
    IF o = ConnectionError THEN "ConnectionError"
    ELSE IF site \in {"upload", "create_dataset", "create_collection"}
    THEN (IF o.status # 201 THEN ""
          ELSE IF o.body = "text" THEN "JSONDecodeError"
          ELSE IF o.body = "partial" THEN "KeyError" ELSE "")
    ELSE IF site \in {"verify_dataset", "verify_link", "verify_status",
                      "verify_unlink_collection", "get_dataset"}
    THEN (IF o.status = 200 /\ o.body = "text" THEN "JSONDecodeError" ELSE "")
    ELSE ""

\* step 9 deleting the dataset whatever status the GET reported
CompleteNext_deletes_any(site, o) ==
    IF CompleteRaises(site, o) # "" THEN "failed"
    ELSE CASE site = "upload" -> IF o.status = 201 THEN "create_dataset" ELSE "returned"
           [] site = "create_dataset" ->
                 IF o.status = 201 THEN "add_description" ELSE "returned"
           [] site = "add_description" -> "add_keyword_1"
           [] site = "add_keyword_1" -> "add_keyword_2"
           [] site = "add_keyword_2" -> "add_keyword_3"
           [] site = "add_keyword_3" -> "add_keyword_4"
           [] site = "add_keyword_4" -> "verify_dataset"
           [] site = "verify_dataset" -> "create_collection"
           [] site = "create_collection" -> IF o.status = 201 THEN "link" ELSE "returned"
           [] site = "link" -> IF o.status \in {201, 204} THEN "verify_link" ELSE "add_tag_1"
           [] site = "verify_link" -> "add_tag_1"
           [] site = "add_tag_1" -> "add_tag_2"
           [] site = "add_tag_2" -> "add_tag_3"
           [] site = "add_tag_3" -> "publish_collection"
           [] site = "publish_collection" ->
                 IF o.status = 204 THEN "verify_status" ELSE "unlink"
           [] site = "verify_status" -> "unlink"
           [] site = "unlink" ->
                 IF o.status \in {200, 204} THEN "verify_unlink_collection"
                 ELSE "delete_collection"
           [] site = "verify_unlink_collection" -> "verify_unlink_dataset"
           [] site = "verify_unlink_dataset" -> "delete_collection"
           [] site = "delete_collection" ->
                 IF o.status = 204 THEN "verify_collection_gone" ELSE "get_dataset"
           [] site = "verify_collection_gone" -> "get_dataset"
           [] site = "get_dataset" -> IF o.status = 200 THEN "delete_dataset" ELSE "done"
           [] site = "delete_dataset" ->
                 IF o.status = 204 THEN "verify_dataset_gone" ELSE "done"
           [] site = "verify_dataset_gone" -> "done"

\* where the script is after the answer o to the request of site: "returned"
\* after one of the three early returns of run_complete_lifecycle, "done"
\* after step 9, "failed" after an exception (caught, then sys.exit(1))
CompleteNext(site, o) ==
    IF CompleteRaises(site, o) # "" THEN "failed"
    ELSE CASE site = "upload" -> IF o.status = 201 THEN "create_dataset" ELSE "returned"
           [] site = "create_dataset" ->
                 IF o.status = 201 THEN "add_description" ELSE "returned"
           [] site = "add_description" -> "add_keyword_1"
           [] site = "add_keyword_1" -> "add_keyword_2"
           [] site = "add_keyword_2" -> "add_keyword_3"
           [] site = "add_keyword_3" -> "add_keyword_4"
           [] site = "add_keyword_4" -> "verify_dataset"
           [] site = "verify_dataset" -> "create_collection"
           [] site = "create_collection" -> IF o.status = 201 THEN "link" ELSE "returned"
           [] site = "link" -> IF o.status \in {201, 204} THEN "verify_link" ELSE "add_tag_1"
           [] site = "verify_link" -> "add_tag_1"
           [] site = "add_tag_1" -> "add_tag_2"
           [] site = "add_tag_2" -> "add_tag_3"
           [] site = "add_tag_3" -> "publish_collection"
           [] site = "publish_collection" ->
                 IF o.status = 204 THEN "verify_status" ELSE "unlink"
           [] site = "verify_status" -> "unlink"
           [] site = "unlink" ->
                 IF o.status \in {200, 204} THEN "verify_unlink_collection"
                 ELSE "delete_collection"
           [] site = "verify_unlink_collection" -> "verify_unlink_dataset"
           [] site = "verify_unlink_dataset" -> "delete_collection"
           [] site = "delete_collection" ->
                 IF o.status = 204 THEN "verify_collection_gone" ELSE "get_dataset"
           [] site = "verify_collection_gone" -> "get_dataset"
           [] site = "get_dataset" ->
                 IF o.status = 200 /\ o.body = "pending" THEN "delete_dataset" ELSE "done"
           [] site = "delete_dataset" ->
                 IF o.status = 204 THEN "verify_dataset_gone" ELSE "done"
           [] site = "verify_dataset_gone" -> "done"

\* the fields of the demo object after the answer o to the request of site
CompleteFields(site, o) ==
    IF CompleteRaises(site, o) # "" \/ o.status # 201 THEN demo
    ELSE CASE site = "upload" -> [demo EXCEPT !.file_info = Some("file_info")]
           [] site = "create_dataset" -> [demo EXCEPT !.dataset_id = Some("id")]
           [] site = "create_collection" -> [demo EXCEPT !.collection_id = Some("id")]
           [] OTHER -> demo

\* the script issues the request of its current place and takes the answer;
\* history keeps what the GET of the dataset in step 9 came back with
CompleteAt(site) ==
    /\ pc = site
    /\ \E o \in DemoOutcomes :
          /\ requests' = Append(requests, CompleteRequest(site))
          /\ response' = o
          /\ pc' = CompleteNext(site, o)
          /\ raised' = CompleteRaises(site, o)
          /\ demo' = CompleteFields(site, o)
          /\ history' = IF site = "get_dataset" /\ o # ConnectionError
                        THEN Append(history, [site |-> site, status |-> o.status,
                                              body |-> o.body, at |-> Len(requests')])
                        ELSE history
    /\ op' = "run_complete_lifecycle"
    /\ paused' = FALSE
    /\ UNCHANGED <<text, row, property_uris, result, dataset>>

\* the banner and the first wait_for_user
Start_complete_lifecycle ==
    /\ pc = "start"
    /\ pc' = "upload"
    /\ op' = "run_complete_lifecycle"
    /\ UNCHANGED <<text, row, property_uris, result, raised, history, dataset,
                   requests, response, paused, demo>>

step_1_upload_file == CompleteAt("upload")

step_2_create_dataset == CompleteAt("create_dataset")

step_3_add_dataset_metadata ==
    \/ CompleteAt("add_description")
    \/ \E site \in {"add_keyword_1", "add_keyword_2", "add_keyword_3", "add_keyword_4"} :
          CompleteAt(site)
    \/ CompleteAt("verify_dataset")

step_4_create_collection == CompleteAt("create_collection")

step_5_link_dataset_to_collection == CompleteAt("link") \/ CompleteAt("verify_link")

step_6_add_collection_metadata ==
    \E site \in {"add_tag_1", "add_tag_2", "add_tag_3"} : CompleteAt(site)

step_7_update_collection_status ==
    CompleteAt("publish_collection") \/ CompleteAt("verify_status")

step_8_desaffectation ==
    \/ CompleteAt("unlink")
    \/ CompleteAt("verify_unlink_collection")
    \/ CompleteAt("verify_unlink_dataset")

step_9_cleanup ==
    \/ CompleteAt("delete_collection")
    \/ CompleteAt("verify_collection_gone")
    \/ CompleteAt("get_dataset")
    \/ CompleteAt("delete_dataset")
    \/ CompleteAt("verify_dataset_gone")

InitComplete ==
    /\ text = <<>>
    /\ row = EmptyRow
    /\ property_uris = PropertyUris
    /\ op = "new"
    /\ result = <<>>
    /\ raised = ""
    /\ history = <<>>
    /\ dataset = EmptyDataset
    /\ requests = <<>>
    /\ response = NoResponse
    /\ pc = "start"
    /\ paused = FALSE
    /\ demo = [file_info |-> None, dataset_id |-> None, collection_id |-> None]

NextComplete ==
    \/ Start_complete_lifecycle
    \/ step_1_upload_file
    \/ step_2_create_dataset
    \/ step_3_add_dataset_metadata
    \/ step_4_create_collection
    \/ step_5_link_dataset_to_collection
    \/ step_6_add_collection_metadata
    \/ step_7_update_collection_status
    \/ step_8_desaffectation
    \/ step_9_cleanup

SpecComplete == InitComplete /\ [][NextComplete]_vars

----------------------------------------------------------------------------
(* Properties of the complete lifecycle script *)

\* the positions in the log of the requests with a method and an endpoint
RequestsTo(method, endpoint) ==
    {i \in 1..Len(requests) :
        requests[i].method = method /\ requests[i].endpoint = endpoint}

\* C22 (as stated): on every run of the complete lifecycle script that ends
\* without an exception, every dataset and every collection the script
\* created has had a DELETE request issued for it
C22_Original ==
    pc \in {"done", "returned"}
    => /\ demo.dataset_id # None => RequestsTo("DELETE", "/datas/{dataset_id}") # {}
       /\ demo.collection_id # None
          => RequestsTo("DELETE", "/collections/{collection_id}") # {}

\* C24: in step_9_cleanup a DELETE for the dataset is issued only after the
\* DELETE for the collection and only after a GET of the dataset, the request
\* just before it, came back 200 with status 'pending'; when that GET reports
\* another status no DELETE for the dataset is ever issued
C24_DeleteOnlyPendingDataset ==
    /\ \A d \in RequestsTo("DELETE", "/datas/{dataset_id}") :
          /\ \E c \in RequestsTo("DELETE", "/collections/{collection_id}") : c < d
          /\ \E i \in 1..Len(history) :
                /\ history[i].at = d - 1
                /\ history[i].status = 200
                /\ history[i].body = "pending"
    /\ \A i \in 1..Len(history) :
          history[i].body # "pending" => RequestsTo("DELETE", "/datas/{dataset_id}") = {}

\* the collection was deleted, the dataset was reported published, and the
\* run ended without a DELETE for the dataset
C24_Witness ==
    /\ pc = "done"
    /\ RequestsTo("DELETE", "/collections/{collection_id}") # {}
    /\ Len(history) = 1
    /\ history[1].status = 200
    /\ history[1].body = "published"
    /\ RequestsTo("DELETE", "/datas/{dataset_id}") = {}

----------------------------------------------------------------------------
(* IncrementalMetadataDemo.run_demo                                         *)
(*                                                                          *)
(* pc is the scenario that runs and the request it is about to issue, with  *)
(* create_test_collection and get_metadata_summary followed inside the      *)
(* scenario that calls them; "finally" is run_demo after its last print.    *)

Scenarios == 1..5

ScenarioSites(k) ==
    IF k = 4
    THEN {"create", "get_before", "clear", "post_1", "post_2", "get_after", "delete"}
    ELSE {"create", "get_before", "modify", "get_after", "delete"}

\* the request issued at each place of scenario k
ScenarioRequest(k, at) ==
    CASE at = "create" -> make_api_request("POST", "/collections", TRUE)
      [] at \in {"get_before", "get_after"} ->
            make_api_request("GET", "/collections/{collection_id}", FALSE)
      [] at = "modify" /\ k \in {1, 3} ->
            make_api_request("POST", "/collections/{collection_id}/metadatas", TRUE)
      [] at = "modify" /\ k = 2 ->
            make_api_request("DELETE", "/collections/{collection_id}/metadatas", TRUE)
      [] at = "modify" /\ k = 5 ->
            make_api_request("PUT", "/collections/{collection_id}", TRUE)
      [] at = "clear" ->
            make_api_request("DELETE", "/collections/{collection_id}/metadatas", TRUE)
      [] at \in {"post_1", "post_2"} ->
            make_api_request("POST", "/collections/{collection_id}/metadatas", TRUE)
      [] at = "delete" -> make_api_request("DELETE", "/collections/{collection_id}", FALSE)

\* the exception that leaves the scenario, "" when it goes on:
\* create_test_collection raises on a status other than 201, and
\* get_metadata_summary returns None on a status other than 200, which the
\* scenario then subscripts (state['metas'])
ScenarioRaises(k, at, o) ==
    IF o = ConnectionError THEN "ConnectionError"
    ELSE IF at = "create"
    THEN (IF o.status # 201 THEN "Exception"
          ELSE IF o.body = "text" THEN "JSONDecodeError"
          ELSE IF o.body = "partial" THEN "KeyError" ELSE "")
    ELSE IF at \in {"get_before", "get_after"}
    THEN (IF o.status # 200 THEN "TypeError"
          ELSE IF o.body = "text" THEN "JSONDecodeError" ELSE "")
    ELSE ""

\* the statuses after which a scenario reads the collection again
ModifiedStatuses(k) ==
    CASE k \in {1, 3} -> {200, 201, 204}
      [] k = 2 -> {200, 204}
      [] k = 5 -> {204}

\* where run_demo is after the answer o: an exception is caught by run_demo,
\* which goes to its finally clause
ScenarioNext(k, at, o) ==
    IF ScenarioRaises(k, at, o) # "" THEN [scenario |-> k, at |-> "finally"]
    ELSE CASE at = "create" -> [scenario |-> k, at |-> "get_before"]
           [] at = "get_before" ->
                 [scenario |-> k, at |-> IF k = 4 THEN "clear" ELSE "modify"]
           [] at = "modify" ->
                 [scenario |-> k,
                  at |-> IF o.status \in ModifiedStatuses(k) THEN "get_after" ELSE "delete"]
           [] at = "clear" -> [scenario |-> k, at |-> "post_1"]
           [] at = "post_1" -> [scenario |-> k, at |-> "post_2"]
           [] at = "post_2" -> [scenario |-> k, at |-> "get_after"]
           [] at = "get_after" -> [scenario |-> k, at |-> "delete"]
           [] at = "delete" ->
                 IF k < 5 THEN [scenario |-> k + 1, at |-> "create"]
                 ELSE [scenario |-> k, at |-> "finally"]

\* scenario k issues the request of its current place and takes the answer;
\* the log keeps with the request the scenario whose collection it is about,
\* and history keeps the collections that create_test_collection returned
ScenarioAt(k, at) ==
    /\ pc = [scenario |-> k, at |-> at]
    /\ \E o \in DemoOutcomes :
          /\ requests' = Append(requests, ScenarioRequest(k, at) @@ ("collection" :> k))
          /\ response' = o
          /\ pc' = ScenarioNext(k, at, o)
          /\ raised' = ScenarioRaises(k, at, o)
          /\ history' = IF at = "create" /\ ScenarioRaises(k, at, o) = ""
                        THEN Append(history, [scenario |-> k, at |-> Len(requests')])
                        ELSE history
    /\ op' = "run_demo"
    /\ paused' = FALSE
    /\ UNCHANGED <<text, row, property_uris, result, dataset, demo>>

\* the banner and the first wait_for_user
Start_run_demo ==
    /\ pc = [scenario |-> 1, at |-> "start"]
    /\ pc' = [scenario |-> 1, at |-> "create"]
    /\ op' = "run_demo"
    /\ UNCHANGED <<text, row, property_uris, result, raised, history, dataset,
                   requests, response, paused, demo>>

scenario_1_add_keyword == \E at \in ScenarioSites(1) : ScenarioAt(1, at)

scenario_2_remove_keyword == \E at \in ScenarioSites(2) : ScenarioAt(2, at)

scenario_3_add_translation == \E at \in ScenarioSites(3) : ScenarioAt(3, at)

scenario_4_update_value == \E at \in ScenarioSites(4) : ScenarioAt(4, at)

scenario_5_put_dangers == \E at \in ScenarioSites(5) : ScenarioAt(5, at)

InitIncremental ==
    /\ text = <<>>
    /\ row = EmptyRow
    /\ property_uris = PropertyUris
    /\ op = "new"
    /\ result = <<>>
    /\ raised = ""
    /\ history = <<>>
    /\ dataset = EmptyDataset
    /\ requests = <<>>
    /\ response = NoResponse
    /\ pc = [scenario |-> 1, at |-> "start"]
    /\ paused = FALSE
    /\ demo = [collection_id |-> None]

NextIncremental ==
    \/ Start_run_demo
    \/ scenario_1_add_keyword
    \/ scenario_2_remove_keyword
    \/ scenario_3_add_translation
    \/ scenario_4_update_value
    \/ scenario_5_put_dangers

SpecIncremental == InitIncremental /\ [][NextIncremental]_vars

----------------------------------------------------------------------------
(* Properties of the incremental metadata script *)

\* the DELETE /collections/{id} requests issued for the collection of scenario k
CollectionDeletes(k) ==
    {i \in 1..Len(requests) :
        /\ requests[i].method = "DELETE"
        /\ requests[i].endpoint = "/collections/{collection_id}"
        /\ requests[i].collection = k}

\* C23 (as stated): every collection a scenario created has had a
\* DELETE /collections/{id} issued for it once a later scenario has started
\* or run_demo has printed 'All resources cleaned up'
C23_Original ==
    \A i \in 1..Len(history) :
        (pc.scenario > history[i].scenario \/ pc.at = "finally")
        => CollectionDeletes(history[i].scenario) # {}

----------------------------------------------------------------------------
(* RightsManagementDemo.run_demo                                            *)
(*                                                                          *)
(* pc names the request the script is about to issue; "returned" is         *)
(* run_demo after cleanup(), "failed" is an exception leaving run_demo.     *)

\* the request issued at each place of the script
RightsRequest(site) ==
    CASE site = "upload" -> UploadRequest
      [] site = "create_dataset" -> make_api_request("POST", "/datas", TRUE)
      [] site \in {"get_rights", "verify_group_rights", "verify_user_rights",
                   "verify_rights"} ->
            make_api_request("GET", "/datas/{dataset_id}/rights", FALSE)
      [] site = "create_group" -> make_api_request("POST", "/groups", TRUE)
      [] site = "get_group" -> make_api_request("GET", "/groups/{group_id}", FALSE)
      [] site \in {"assign_group", "assign_user"} ->
            make_api_request("POST", "/datas/{dataset_id}/rights", TRUE)
      [] site = "delete_group" -> make_api_request("DELETE", "/groups/{group_id}", FALSE)
      [] site = "search_user" ->
            make_api_request("GET", "/users/search?q=tnakala&limit=1", FALSE)
      [] site = "cleanup_dataset" ->
            make_api_request("DELETE", "/datas/{dataset_id}", FALSE)

\* the exception that leaves the part, "" when it goes on; the user search
\* runs inside its own try/except and never raises
RightsRaises(site, o) ==
    IF site = "search_user" THEN ""
    ELSE IF o = ConnectionError THEN "ConnectionError"
    ELSE IF site \in {"upload", "create_dataset"}
    THEN (IF o.status # 201 THEN "Exception"
          ELSE IF o.body = "text" THEN "JSONDecodeError"
          ELSE IF o.body = "partial" THEN "KeyError" ELSE "")
    ELSE IF site = "create_group"
    THEN (IF o.status \in {200, 201} /\ o.body = "text" THEN "JSONDecodeError" ELSE "")
    ELSE IF site \in {"get_rights", "get_group", "verify_group_rights",
                      "verify_user_rights", "verify_rights"}
    THEN (IF o.status = 200 /\ o.body = "text" THEN "JSONDecodeError" ELSE "")
    ELSE ""

\* POST /groups came back with the id of a new group
GroupCreated(o) ==
    /\ o # ConnectionError
    /\ o.status \in {200, 201}
    /\ o.body \in {"pending", "published"}

\* where run_demo is after the answer o to the request of site: an exception
\* in a part is caught by run_demo, whose finally clause calls cleanup(),
\* which issues a DELETE when self.dataset_id is set
RightsNext(site, o) ==
    IF site = "cleanup_dataset"
    THEN (IF RightsRaises(site, o) # "" THEN "failed" ELSE "returned")
    ELSE IF RightsRaises(site, o) # ""
    THEN (IF demo.dataset_id # None THEN "cleanup_dataset" ELSE "returned")
    ELSE CASE site = "upload" -> "create_dataset"
           [] site = "create_dataset" -> "get_rights"
           [] site = "get_rights" -> "create_group"
           [] site = "create_group" -> IF GroupCreated(o) THEN "get_group" ELSE "search_user"
           [] site = "get_group" -> IF o.status = 200 THEN "assign_group" ELSE "search_user"
           [] site = "assign_group" ->
                 IF o.status = 200 THEN "verify_group_rights" ELSE "delete_group"
           [] site = "verify_group_rights" -> "delete_group"
           [] site = "delete_group" -> "search_user"
           [] site = "search_user" -> "assign_user"
           [] site = "assign_user" ->
                 IF o.status = 200 THEN "verify_user_rights" ELSE "verify_rights"
           [] site = "verify_user_rights" -> "verify_rights"
           [] site = "verify_rights" -> "cleanup_dataset"

\* the script issues the request of its current place and takes the answer;
\* history keeps the creation of the test group
RightsAt(site) ==
    /\ pc = site
    /\ \E o \in DemoOutcomes :
          /\ requests' = Append(requests, RightsRequest(site))
          /\ response' = o
          /\ pc' = RightsNext(site, o)
          /\ raised' = RightsRaises(site, o)
          /\ demo' = IF site = "create_dataset" /\ RightsRaises(site, o) = ""
                     THEN [demo EXCEPT !.dataset_id = Some("id")]
                     ELSE demo
          /\ history' = IF site = "create_group" /\ GroupCreated(o)
                        THEN Append(history, [site |-> site, at |-> Len(requests')])
                        ELSE history
    /\ op' = "run_demo"
    /\ paused' = FALSE
    /\ UNCHANGED <<text, row, property_uris, result, dataset>>

\* prints only, after the banner and the first wait_for_user
demonstrate_rights_hierarchy ==
    /\ pc = "start"
    /\ pc' = "upload"
    /\ op' = "run_demo"
    /\ UNCHANGED <<text, row, property_uris, result, raised, history, dataset,
                   requests, response, paused, demo>>

demonstrate_automatic_owner ==
    RightsAt("upload") \/ RightsAt("create_dataset") \/ RightsAt("get_rights")

demonstrate_group_creation_concept ==
    \/ RightsAt("create_group")
    \/ RightsAt("get_group")
    \/ RightsAt("assign_group")
    \/ RightsAt("verify_group_rights")
    \/ RightsAt("delete_group")

demonstrate_individual_rights_assignment ==
    RightsAt("search_user") \/ RightsAt("assign_user") \/ RightsAt("verify_user_rights")

demonstrate_rights_verification == RightsAt("verify_rights")

cleanup == RightsAt("cleanup_dataset")

InitRights ==
    /\ text = <<>>
    /\ row = EmptyRow
    /\ property_uris = PropertyUris
    /\ op = "new"
    /\ result = <<>>
    /\ raised = ""
    /\ history = <<>>
    /\ dataset = EmptyDataset
    /\ requests = <<>>
    /\ response = NoResponse
    /\ pc = "start"
    /\ paused = FALSE
    /\ demo = [dataset_id |-> None, collection_id |-> None]

NextRights ==
    \/ demonstrate_rights_hierarchy
    \/ demonstrate_automatic_owner
    \/ demonstrate_group_creation_concept
    \/ demonstrate_individual_rights_assignment
    \/ demonstrate_rights_verification
    \/ cleanup

SpecRights == InitRights /\ [][NextRights]_vars

----------------------------------------------------------------------------
(* Properties of the rights management script *)

\* C26 (as stated): when run_demo returns, the test dataset and the test
\* group, if the demo created them, have each had a DELETE request issued
C26_Original ==
    pc = "returned"
    => /\ demo.dataset_id # None => RequestsTo("DELETE", "/datas/{dataset_id}") # {}
       /\ history # <<>> => RequestsTo("DELETE", "/groups/{group_id}") # {}

----------------------------------------------------------------------------
(* Calls of demo_helpers.make_api_request, after at most one call of an     *)
(* api_client function                                                      *)

MaxDispatch == 2

\* the method names tried: the five verbs, a verb the dispatcher does not
\* know, and a known verb in lower case
Methods == Verbs \cup {"HEAD", "get"}

Endpoints == {"/datas", "/datas/{dataset_id}"}

\* the data argument: None, an empty dict, a dict with entries
DataArguments == {"None", "empty", "payload"}

\* bool(data)
DataTruthy(data) == data = "payload"

\* what a dispatched request comes back with
DispatchOutcomes ==
    {[status |-> 200, body |-> "complete"], [status |-> 500, body |-> "text"],
     ConnectionError}

\* a call that raises ValueError issues nothing; any other call issues its
\* request and returns the response, or lets the transport error through
Call_make_api_request ==
    /\ Len(history) < MaxDispatch
    /\ \E method \in Methods, endpoint \in Endpoints, data \in DataArguments :
          /\ IF make_api_request_raises(method) # ""
             THEN /\ raised' = make_api_request_raises(method)
                  /\ result' = None
                  /\ UNCHANGED <<requests, response>>
             ELSE \E o \in DispatchOutcomes :
                     /\ requests' = Append(requests,
                                           make_api_request(method, endpoint,
                                                            DataTruthy(data)))
                     /\ response' = o
                     /\ raised' = IF o = ConnectionError THEN "ConnectionError" ELSE ""
                     /\ result' = IF o = ConnectionError THEN None ELSE Some(o)
          /\ history' = Append(history,
                               [op |-> "make_api_request", method |-> method,
                                endpoint |-> endpoint, data |-> data,
                                before |-> Len(requests), after |-> Len(requests'),
                                answer |-> response', result |-> result',
                                raised |-> raised'])
    /\ op' = "make_api_request"
    /\ UNCHANGED <<text, row, property_uris, dataset, pc, paused, demo>>

\* one call of an api_client function, as the first call
Call_api_client == history = <<>> /\ NextApi

InitRequest == InitApi

NextRequest == Call_make_api_request \/ Call_api_client

SpecRequest == InitRequest /\ [][NextRequest]_vars

----------------------------------------------------------------------------
(* Properties of the request dispatcher *)

\* the calls of make_api_request made so far
Dispatched == {i \in 1..Len(history) : history[i].op = "make_api_request"}

\* C27: make_api_request called with GET, POST, PUT, PATCH or DELETE issues
\* exactly one request, with that verb and to the endpoint given, and returns
\* the response whatever its status; called with any other method name it
\* raises ValueError and issues no request
C27_DispatchOnMethod ==
    \A i \in Dispatched :
        LET call == history[i] IN
        IF call.method \in {"GET", "POST", "PUT", "PATCH", "DELETE"}
        THEN /\ call.after = call.before + 1
             /\ requests[call.after].method = call.method
             /\ requests[call.after].endpoint = call.endpoint
             /\ call.answer # ConnectionError
                => call.raised = "" /\ call.result = Some(call.answer)
        ELSE /\ call.after = call.before
             /\ call.raised = "ValueError"

\* a PATCH answered 500 was returned to the caller, then a call with the
\* lower-case name 'get' raised ValueError and the log stayed at one request
C27_Witness ==
    /\ Len(history) = 2
    /\ history[1].method = "PATCH"
    /\ history[1].result = Some([status |-> 500, body |-> "text"])
    /\ history[2].method = "get"
    /\ history[2].raised = "ValueError"
    /\ Len(requests) = 1

\* the calls of make_api_request that issued a request
Sent == {i \in Dispatched : history[i].after = history[i].before + 1}

\* C28 (as stated): every request carries the X-API-KEY header, and a request
\* of make_api_request carries the Content-Type header and a JSON body
\* exactly when a non-empty data payload was supplied
C28_Original ==
    /\ \A i \in 1..Len(requests) : "X-API-KEY" \in requests[i].headers
    /\ \A i \in Sent :
          LET request == requests[history[i].after] IN
          /\ "Content-Type" \in request.headers <=> history[i].data = "payload"
          /\ request.payload = "json" <=> history[i].data = "payload"

\* C28 (amended): every request of make_api_request and of the api_client
\* functions carries the X-API-KEY header; a request of make_api_request
\* carries the Content-Type header exactly when a non-empty data payload was
\* supplied, and a JSON body exactly when a non-empty data payload was
\* supplied and the method is POST, PUT, PATCH or DELETE
C28_KeyAndPayload ==
    /\ \A i \in 1..Len(requests) : "X-API-KEY" \in requests[i].headers
    /\ \A i \in Sent :
          LET request == requests[history[i].after] IN
          /\ "Content-Type" \in request.headers <=> history[i].data = "payload"
          /\ request.payload = "json"
             <=> (history[i].data = "payload" /\ history[i].method # "GET")

\* after an upload by api_client, a GET called with a payload went out with
\* the Content-Type header and without a body
C28_Witness ==
    /\ Len(history) = 2
    /\ history[1].op = "upload_file"
    /\ Len(requests) = 2
    /\ history[2].op = "make_api_request"
    /\ history[2].method = "GET"
    /\ history[2].data = "payload"
    /\ requests[2].headers = {"X-API-KEY", "Content-Type"}
    /\ requests[2].payload = "none"

----------------------------------------------------------------------------
(* demo_helpers.extract_differences                                         *)
(*                                                                          *)
(* A state is a dict with optional keys metas, status and datas. A value of *)
(* a metadata entry is a str, [str |-> s], or a dict, [dict |-> d].         *)

MaxMetas == 2

\* 'h/n#t' and 'h/d/s', shaped as the nakala.fr (with '#') and purl.org
\* (without) property URIs
CompareUris == {<<"h", "/", "n", "#", "t">>, <<"h", "/", "d", "/", "s">>}

CompareValues == {[str |-> <<"a">>], [dict |-> "creator"]}

\* the entries compared, with and without a lang key
CompareMetas ==
    [propertyUri : CompareUris, value : CompareValues]
    \cup [propertyUri : CompareUris, lang : {"en"}, value : CompareValues]

CompareStatuses == {None, Some("pending"), Some("published")}

CompareDatas == {None, Some({}), Some({"d"})}

\* the entries of a list
Range(list) == {list[i] : i \in 1..Len(list)}

\* m.get('lang', 'no-lang')
meta_lang(m) == IF "lang" \in DOMAIN m THEN m.lang ELSE "no-lang"

\* (m.get('propertyUri'), m.get('lang', 'no-lang'), m.get('value', ''))
meta_key(m) == <<m.propertyUri, meta_lang(m), m.value>>

\* a dict is not hashable, and neither is a tuple that holds one
Unhashable(m) == "dict" \in DOMAIN m.value

\* the keys of the dict comprehension over a metas list
metas_keys(metas) == {meta_key(metas[i]) : i \in 1..Len(metas)}

\* uri.split('#')[-1].split('/')[-1]
prop_name(uri) ==
    LET after_hash == split(uri, "#")[Len(split(uri, "#"))]
    IN  split(after_hash, "/")[Len(split(after_hash, "/"))]

\* value[:50]
Truncated(value) == SubSeq(value, 1, IF Len(value) < 50 THEN Len(value) ELSE 50)

\* f"{kind} {prop_name}: '{value[:50]}...'"
MetaLine(kind, key) ==
    [kind |-> kind, prop |-> prop_name(key[1]), value |-> Truncated(key[3].str)]

\* the two comprehensions run when both states have a metas key, and raise
\* on the first entry whose value is a dict
extract_differences_raises(before, after) ==
    IF /\ before.metas # None
       /\ after.metas # None
       /\ \E m \in Range(before.metas[1]) \cup Range(after.metas[1]) : Unhashable(m)
    THEN "TypeError"
    ELSE ""

\* the orders in which a for loop may visit a set
Orders(S) == {f \in [1..Cardinality(S) -> S] : \A i, j \in DOMAIN f : f[i] = f[j] => i = j}

added_keys(before, after) ==
    IF before.metas # None /\ after.metas # None
    THEN metas_keys(after.metas[1]) \ metas_keys(before.metas[1])
    ELSE {}

removed_keys(before, after) ==
    IF before.metas # None /\ after.metas # None
    THEN metas_keys(before.metas[1]) \ metas_keys(after.metas[1])
    ELSE {}

\* before.get('status') != after.get('status')
status_lines(before, after) ==
    IF before.status # after.status
    THEN <<[kind |-> "Status changed", from |-> before.status, to |-> after.status]>>
    ELSE <<>>

\* the two dataset lines, each only for a non-empty difference of the sets
datas_lines(before, after) ==
    IF before.datas # None /\ after.datas # None
    THEN LET added_datas == after.datas[1] \ before.datas[1]
             removed_datas == before.datas[1] \ after.datas[1]
         IN  (IF added_datas # {}
              THEN <<[kind |-> "Added datasets", count |-> Cardinality(added_datas)]>>
              ELSE <<>>)
             \o (IF removed_datas # {}
                 THEN <<[kind |-> "Removed datasets",
                         count |-> Cardinality(removed_datas)]>>
                 ELSE <<>>)
    ELSE <<>>

\* the list returned when the added keys are visited in the order added and
\* the removed ones in the order removed
extract_differences(before, after, added, removed) ==
    [i \in DOMAIN added |-> MetaLine("Added", added[i])]
    \o [i \in DOMAIN removed |-> MetaLine("Removed", removed[i])]
    \o status_lines(before, after)
    \o datas_lines(before, after)

Call_extract_differences ==
    /\ op = "new"
    /\ LET before == dataset.before
           after == dataset.after
       IN  IF extract_differences_raises(before, after) # ""
           THEN /\ raised' = extract_differences_raises(before, after)
                /\ result' = <<>>
           ELSE /\ raised' = ""
                /\ \E added \in Orders(added_keys(before, after)),
                      removed \in Orders(removed_keys(before, after)) :
                      result' = extract_differences(before, after, added, removed)
    /\ op' = "extract_differences"
    /\ UNCHANGED <<text, row, property_uris, history, dataset, http_vars>>

\* every pair of states whose metas lists hold MaxMetas entries in all
CompareStates(n) ==
    [metas : {None}, status : CompareStatuses, datas : CompareDatas]
    \cup {[metas |-> Some(metas), status |-> status, datas |-> datas] :
             metas \in [1..n -> CompareMetas], status \in CompareStatuses,
             datas \in CompareDatas}

InitCompare ==
    /\ text = <<>>
    /\ row = EmptyRow
    /\ property_uris = PropertyUris
    /\ op = "new"
    /\ result = <<>>
    /\ raised = ""
    /\ history = <<>>
    /\ requests = <<>>
    /\ response = NoResponse
    /\ pc = "idle"
    /\ paused = FALSE
    /\ demo = None
    /\ \E n \in 0..MaxMetas : \E k \in 0..n :
          dataset \in [before : CompareStates(k), after : CompareStates(n - k)]

NextCompare == Call_extract_differences

SpecCompare == InitCompare /\ [][NextCompare]_vars

----------------------------------------------------------------------------
(* Properties of extract_differences *)

\* the (propertyUri, lang, value) keys of a state's metas list
KeysOf(state) ==
    {<<m.propertyUri, IF "lang" \in DOMAIN m THEN m.lang ELSE "no-lang", m.value>> :
        m \in Range(state.metas[1])}

\* the positions of the returned lines of a kind
LinesOf(kind) == {i \in 1..Len(result) : result[i].kind = kind}

\* C29 (as stated): for two states that both carry a metas list, whose
\* values are strings or creator records, extract_differences returns one
\* 'Added' line for each key in after but not in before, one 'Removed' line
\* for each key in before but not in after, a 'Status changed' line exactly
\* when the status values differ, dataset lines exactly when the datas sets
\* differ, and the empty list for a state compared with itself
C29_Original ==
    (op = "extract_differences" /\ dataset.before.metas # None
     /\ dataset.after.metas # None)
    => /\ raised = ""
       /\ Cardinality(LinesOf("Added"))
          = Cardinality(KeysOf(dataset.after) \ KeysOf(dataset.before))
       /\ Cardinality(LinesOf("Removed"))
          = Cardinality(KeysOf(dataset.before) \ KeysOf(dataset.after))
       /\ LinesOf("Status changed") # {} <=> dataset.before.status # dataset.after.status
       /\ (dataset.before.datas # None /\ dataset.after.datas # None)
          => (LinesOf("Added datasets") \cup LinesOf("Removed datasets") # {}
              <=> dataset.before.datas # dataset.after.datas)
       /\ dataset.before = dataset.after => result = <<>>

----------------------------------------------------------------------------
(* Calls of validate_dataset on datasets whose metas may hold entries       *)
(* without a propertyUri or a value key                                     *)

\* a title entry, a type entry with a bare code, an entry without
\* propertyUri and a type entry without value
FrameMetas ==
    {[propertyUri |-> PropertyUris.title, value |-> <<"a">>],
     [propertyUri |-> PropertyUris.type, value |-> <<"c">>],
     [value |-> <<"a">>],
     [propertyUri |-> PropertyUris.type]}

InitFrame ==
    /\ text = <<>>
    /\ row = EmptyRow
    /\ property_uris = PropertyUris
    /\ op = "new"
    /\ result = <<>>
    /\ raised = ""
    /\ history = <<>>
    /\ requests = <<>>
    /\ response = NoResponse
    /\ pc = "idle"
    /\ paused = FALSE
    /\ demo = None
    /\ \E status \in Statuses :
          \/ dataset = [status |-> status, metas |-> None]
          \/ \E n \in 0..MaxTypeMetas : \E metas \in [1..n -> FrameMetas] :
                dataset = [status |-> status, metas |-> Some(metas)]

NextFrame == Call_validate_dataset

SpecFrame == InitFrame /\ [][NextFrame]_vars

\* C30: a call of validate_dataset on a dataset whose status is not
\* 'published', or is missing, returns (True, []) without raising, whatever
\* the metas hold, so without reading them; and every call leaves the dataset
\* as it was
C30_FrameOfValidate ==
    [][op' = "validate_dataset"
       => /\ dataset' = dataset
          /\ dataset.status # Some("published")
             => raised' = "" /\ result' = <<TRUE, <<>>>>]_vars

\* a pending dataset whose only entry has no propertyUri key was found valid
C30_Witness ==
    /\ op = "validate_dataset"
    /\ dataset = [status |-> Some("pending"), metas |-> Some(<<[value |-> <<"a">>]>>)]
    /\ raised = ""
    /\ result = <<TRUE, <<>>>>

====
